---- MODULE Spec2Model ----
(***************************************************************************)
(* Model of the Wikipedia-to-flashcards pipeline of bitnet-test:           *)
(*   WikipediaProcessor.chunk_text          (wikipedia_processor.py)       *)
(*   BitNetFlashcardGenerator._parse_flashcards, generate_flashcards       *)
(*                                           (flashcard_generator.py)      *)
(*                                                                         *)
(* A text handed to chunk_text is represented by what the chunker can      *)
(* observe of it: its length, the set of indices holding a period and the  *)
(* set of indices holding whitespace (0-based, as in Python).  A chunk is  *)
(* the half-open index range [lo, hi) of the text it was sliced from.      *)
(* A string handed to the parser is a sequence of one-character strings.   *)
(***************************************************************************)
EXTENDS Integers, Sequences, FiniteSets, TLC

VARIABLES
    \* ---- WikipediaProcessor.chunk_text ----
    text,            \* the argument text: [len, dots, ws]
    max_chunk_size,  \* the argument max_chunk_size
    overlap,         \* the argument overlap
    start,           \* the local start
    chunks,          \* the local list chunks (the return value once done)
    windows,         \* history: one record per executed loop iteration
    pc_chunk,        \* "idle", "call", "loop", "done"
    \* ---- BitNetFlashcardGenerator._parse_flashcards ----
    response,          \* the argument response
    lines,             \* response.split('\n')
    line_no,           \* how many lines the for loop has consumed
    current_question,  \* the local current_question (None or a string)
    current_answer,    \* the local current_answer (None or a string)
    flashcards,        \* the local list flashcards (the return value once done)
    pc_parse,          \* "idle", "call", "loop", "done"
    \* ---- BitNetFlashcardGenerator (load_model, generate_flashcards) ----
    is_loaded,         \* self.is_loaded
    tokenizer,         \* self.tokenizer: "None" or "loaded"
    model,             \* self.model: "None" or "loaded"
    content_chunks,    \* content['chunks'], a list of chunk identifiers
    num_cards,         \* the argument num_cards
    chunk_index,       \* how many chunks the for loop has consumed
    gen_flashcards,    \* the local list flashcards of generate_flashcards
    requests,          \* history: one record per _generate_from_chunk call
    collected,         \* history: every card the calls returned, in call order
    loads,             \* history: how often load_model loaded the model
    pc_gen,            \* "idle", "call", "loop", "limit", "done", "raised"
    \* ---- BitNetRAGSystem (initialize, process_wikipedia_to_flashcards) ----
    is_initialized,    \* self.is_initialized
    calls,             \* history: how many calls were made on the system
    wikipedia_url,     \* the argument wikipedia_url
    include_summary,   \* the argument include_summary
    content,           \* the local content: None or the processed article
    summary_requests,  \* history: generate_summary_flashcards model calls
    summary_flashcards,\* the local summary_flashcards
    result,            \* the value returned: None or the result record
    failures,          \* history: the stages that failed during the call
    pc_sys,            \* where process_wikipedia_to_flashcards stands
    \* ---- clean_text ----
    raw_text,          \* the argument text of clean_text
    cleaned,           \* the string clean_text returned
    pc_clean,          \* "idle", "call", "done"
    \* ---- extract_key_concepts ----
    concept_text,      \* the argument text of extract_key_concepts
    sentences,         \* the local sentences, each as its list of words
    key_concepts,      \* the list extract_key_concepts returned
    pc_concepts,       \* "idle", "call", "scan", "done"
    \* ---- interactive_mode ----
    typed_url,         \* the local wikipedia_url: the stripped URL input
    cli_num_cards,     \* the local num_cards
    last_input,        \* history: the line the last input() call returned
    invocations,       \* history: the pipeline calls, as [url, num_cards]
    saves,             \* history: how many results were saved
    rounds,            \* history: how many inputs were read
    pc_cli             \* "idle", "url", "count", "process", "save", "ended"

chunkVars == <<text, max_chunk_size, overlap, start, chunks, windows, pc_chunk>>

parseVars == <<response, lines, line_no, current_question, current_answer,
               flashcards, pc_parse>>

genVars == <<is_loaded, tokenizer, model, content_chunks, num_cards,
             chunk_index, gen_flashcards, requests, collected, loads, pc_gen>>

sysVars == <<is_initialized, calls, wikipedia_url, include_summary, content,
             summary_requests, summary_flashcards, result, failures,
             pc_sys>>

textVars == <<raw_text, cleaned, pc_clean, concept_text, sentences,
              key_concepts, pc_concepts>>

cliVars == <<typed_url, cli_num_cards, last_input, invocations, saves, rounds,
             pc_cli>>

vars == <<chunkVars, parseVars, genVars, sysVars, textVars, cliVars>>

----------------------------------------------------------------------------
(* Bounds of the explored inputs *)

\* longest text of the exhaustively enumerated small texts
MaxTextLen == 6
\* largest max_chunk_size tried on the small texts
MaxChunkParam == 4
\* loop iterations explored per call (a run that needs more is cut off)
MaxWindows == 6
\* most lines of a response handed to the parser
MaxLines == 4
\* most chunks of an article handed to generate_flashcards
MaxChunks == 4
\* largest num_cards asked of generate_flashcards
MaxNumCards == 4
\* the number of calls made on one system or generator
MaxCalls == 3
\* the number of pieces of a text handed to clean_text
MaxPieces == 3
\* the number of words of a text handed to extract_key_concepts
MaxWords == 3
\* the number of distinct concepts up to which every order is explored
ArbitraryOrderLen == 3
\* the number of lines typed into interactive_mode
MaxRounds == 4

----------------------------------------------------------------------------
(* Integer helpers *)

Max2(a, b) == IF a >= b THEN a ELSE b
Min2(a, b) == IF a <= b THEN a ELSE b

SetMax(S) == CHOOSE x \in S : \A y \in S : y <= x
SetMin(S) == CHOOSE x \in S : \A y \in S : x <= y

----------------------------------------------------------------------------
(* Python string primitives on the [len, dots, ws] representation *)

\* a slice bound as Python resolves it against a string of length n
SliceIndex(i, n) == IF i < 0 THEN Max2(i + n, 0) ELSE Min2(i, n)

\* text.rfind('.', lo, hi): highest index of a period in text[lo:hi], or -1
RFindDot(t, lo, hi) ==
    LET a == SliceIndex(lo, t.len)
        b == SliceIndex(hi, t.len)
        found == {i \in t.dots : a <= i /\ i < b}
    IN  IF found = {} THEN -1 ELSE SetMax(found)

\* text[lo:hi] as an index range; the empty string is [lo |-> 0, hi |-> 0]
Slice(t, lo, hi) ==
    LET a == SliceIndex(lo, t.len)
        b == SliceIndex(hi, t.len)
    IN  IF a < b THEN [lo |-> a, hi |-> b] ELSE [lo |-> 0, hi |-> 0]

\* s.strip() of the range r of t: leading, then trailing whitespace removed
RECURSIVE LStripIndex(_, _, _)
LStripIndex(t, a, b) ==
    IF a < b /\ a \in t.ws THEN LStripIndex(t, a + 1, b) ELSE a

RECURSIVE RStripIndex(_, _, _)
RStripIndex(t, a, b) ==
    IF a < b /\ (b - 1) \in t.ws THEN RStripIndex(t, a, b - 1) ELSE b

StripRange(t, r) ==
    LET a == LStripIndex(t, r.lo, r.hi)
        b == RStripIndex(t, a, r.hi)
    IN  IF a < b THEN [lo |-> a, hi |-> b] ELSE [lo |-> 0, hi |-> 0]

RangeLen(r) == r.hi - r.lo

\* the character at index i of t, and the string a range denotes
CharAt(t, i) == IF i \in t.dots THEN "." ELSE IF i \in t.ws THEN " " ELSE "a"
RangeString(t, r) == [k \in 1 .. RangeLen(r) |-> CharAt(t, r.lo + k - 1)]

----------------------------------------------------------------------------
(* WikipediaProcessor.chunk_text *)

\* how far back from the raw end a sentence end is searched
SentenceLookback == 100

\* variant: the sentence end is searched forward from the raw end
WindowEndForward(t, s, size) ==
    LET raw == s + size
        sentence_end == RFindDot(t, raw, raw + SentenceLookback)
    IN  IF raw < t.len /\ sentence_end > s THEN sentence_end + 1 ELSE raw
\* text.find('.', lo, hi): lowest index of a period in text[lo:hi], or -1
FindDot(t, lo, hi) ==
    LET a == SliceIndex(lo, t.len)
        b == SliceIndex(hi, t.len)
        found == {i \in t.dots : a <= i /\ i < b}
    IN  IF found = {} THEN -1 ELSE SetMin(found)

\* variant: the window is snapped to the first period of the lookback range
WindowEndFirstPeriod(t, s, size) ==
    LET raw == s + size
        search_start == Max2(0, raw - SentenceLookback)
        sentence_end == FindDot(t, search_start, raw)
    IN  IF raw < t.len /\ sentence_end > s THEN sentence_end + 1 ELSE raw
\* the end of the window that begins at s: the raw end, snapped back to one
\* past the last period found in the lookback range
WindowEnd(t, s, size) ==
    LET raw == s + size
        search_start == Max2(0, raw - SentenceLookback)
        sentence_end == RFindDot(t, search_start, raw)
    IN  IF raw < t.len /\ sentence_end > s THEN sentence_end + 1 ELSE raw

\* variants: the overlap is forgotten; the overlap is added
NextStartNoOverlap(e, ov) == e
NextStartSkip(e, ov) == e + ov
\* "start = end - overlap"
NextStart(e, ov) == e - ov

\* variant: the short text is stripped like a window is
ShortTextResultStripped(t) == <<StripRange(t, [lo |-> 0, hi |-> t.len])>>
\* "if len(text) <= max_chunk_size: return [text]"
ShortTextResult(t) == <<[lo |-> 0, hi |-> t.len]>>

\* variant: empty chunks are appended too
AppendChunkAlways(cs, c) == Append(cs, c)
\* "if chunk: chunks.append(chunk)"
AppendChunk(cs, c) == IF RangeLen(c) > 0 THEN Append(cs, c) ELSE cs

\* lines 152 and 169: the loop ends when the next start is at or past the end
LoopEndsAtTextEnd(t, s, e) == s >= t.len \/ e >= t.len

LoopEnds(t, s, e) == s >= t.len

ChunkCall ==
    /\ pc_chunk = "call"
    /\ IF text.len <= max_chunk_size
       THEN /\ chunks' = ShortTextResult(text)
            /\ pc_chunk' = "done"
       ELSE /\ chunks' = <<>>
            /\ pc_chunk' = "loop"
    /\ start' = 0
    /\ UNCHANGED <<text, max_chunk_size, overlap, windows>>
    /\ UNCHANGED <<parseVars, genVars, sysVars, textVars, cliVars>>

ChunkLoop ==
    /\ pc_chunk = "loop"
    /\ Len(windows) < MaxWindows
    /\ LET raw == start + max_chunk_size
           e == WindowEnd(text, start, max_chunk_size)
           chunk == StripRange(text, Slice(text, start, e))
       IN  /\ chunks' = AppendChunk(chunks, chunk)
           /\ windows' = Append(windows,
                  [start |-> start, raw |-> raw, end |-> e, chunk |-> chunk])
           /\ start' = NextStart(e, overlap)
           /\ pc_chunk' = IF LoopEnds(text, start', e) THEN "done" ELSE "loop"
    /\ UNCHANGED <<text, max_chunk_size, overlap>>
    /\ UNCHANGED <<parseVars, genVars, sysVars, textVars, cliVars>>

\* the small texts: every arrangement of letters, periods and blanks
SmallTexts ==
    {[len |-> n, dots |-> d, ws |-> w] :
        n \in 0 .. MaxTextLen,
        d \in SUBSET (0 .. MaxTextLen - 1),
        w \in SUBSET (0 .. MaxTextLen - 1)}

WellFormedText(t) ==
    /\ t.dots \subseteq 0 .. t.len - 1
    /\ t.ws \subseteq 0 .. t.len - 1
    /\ t.dots \cap t.ws = {}

\* texts around the default parameters (1000, 200) and around a window of
\* 120 characters, given by their length and where periods and blanks sit
DefaultChunkSize == 1000
DefaultOverlap == 200

BigLens == {1001, 1100, 1800, 2500, 2600}
BigDots == {850, 899, 900, 950, 999, 1000, 1650, 2400}
BigWs == {0, 999}

MidLens == {121, 250}
MidDots == {19, 20, 21, 70, 119, 120, 200}
MidWs == {0, 119}
MidChunkSizes == {120}
MidOverlaps == {10, 60}

TextsOf(lens, dotsAt, wsAt) ==
    {[len |-> n, dots |-> d, ws |-> w \ d] :
        n \in lens, d \in SUBSET dotsAt, w \in SUBSET wsAt}

InitChunkWith(texts, sizes, overlaps) ==
    /\ text \in texts
    /\ max_chunk_size \in sizes
    /\ overlap \in overlaps
    /\ start = 0
    /\ chunks = <<>>
    /\ windows = <<>>
    /\ pc_chunk = "call"

ChunkIdle ==
    /\ text = [len |-> 0, dots |-> {}, ws |-> {}]
    /\ max_chunk_size = DefaultChunkSize
    /\ overlap = DefaultOverlap
    /\ start = 0
    /\ chunks = <<>>
    /\ windows = <<>>
    /\ pc_chunk = "idle"

ChunkInputs ==
    \/ InitChunkWith({t \in SmallTexts : WellFormedText(t)},
                     1 .. MaxChunkParam, 0 .. MaxChunkParam)
    \/ InitChunkWith(TextsOf(BigLens, BigDots, BigWs),
                     {DefaultChunkSize}, {DefaultOverlap})
    \/ InitChunkWith(TextsOf(MidLens, MidDots, MidWs),
                     MidChunkSizes, MidOverlaps)

NextChunk == ChunkCall \/ ChunkLoop

----------------------------------------------------------------------------
(* Python string primitives on strings as sequences of characters *)

NL == "\n"
Whitespace == {" ", "\t", NL}

RECURSIVE LStrip(_)
LStrip(s) == IF s # <<>> /\ Head(s) \in Whitespace THEN LStrip(Tail(s)) ELSE s

RECURSIVE RStrip(_)
RStrip(s) ==
    IF s # <<>> /\ s[Len(s)] \in Whitespace
    THEN RStrip(SubSeq(s, 1, Len(s) - 1)) ELSE s

\* s.strip()
Strip(s) == RStrip(LStrip(s))

\* s.startswith(p)
StartsWith(s, p) == Len(s) >= Len(p) /\ SubSeq(s, 1, Len(p)) = p

\* s[n:]
DropFirst(s, n) == SubSeq(s, n + 1, Len(s))

\* s.split('\n')
RECURSIVE SplitLines(_)
SplitLines(s) ==
    LET at == {i \in 1 .. Len(s) : s[i] = NL}
    IN  IF at = {} THEN <<s>>
        ELSE LET i == SetMin(at)
             IN  <<SubSeq(s, 1, i - 1)>> \o SplitLines(SubSeq(s, i + 1, Len(s)))

\* '\n'.join(ls)
RECURSIVE JoinLines(_)
JoinLines(ls) ==
    IF ls = <<>> THEN <<>>
    ELSE IF Len(ls) = 1 THEN ls[1]
    ELSE ls[1] \o <<NL>> \o JoinLines(Tail(ls))

----------------------------------------------------------------------------
(* BitNetFlashcardGenerator._parse_flashcards *)

None == <<"None">>

\* Python truthiness of an optional string: neither None nor ''
Truthy(x) == x # None /\ x # <<>>

PrefixQ == <<"Q", ":">>
PrefixQuestion == <<"Q", "u", "e", "s", "t", "i", "o", "n", ":">>
PrefixA == <<"A", ":">>
PrefixAnswer == <<"A", "n", "s", "w", "e", "r", ":">>

IsQuestionLine(line) == StartsWith(line, PrefixQ) \/ StartsWith(line, PrefixQuestion)
IsAnswerLine(line) == StartsWith(line, PrefixA) \/ StartsWith(line, PrefixAnswer)

\* variant: the registers are stored as they are
MakeCardUnstripped(q, a) == [question |-> q, answer |-> a]
\* the card appended when a pair is flushed
MakeCard(q, a) == [question |-> Strip(q), answer |-> Strip(a)]

\* variant: the registers are tested against None instead of for truth
FlushAlways(cards, q, a) ==
    IF q # None /\ a # None THEN Append(cards, MakeCard(q, a)) ELSE cards
\* "if current_question and current_answer: flashcards.append(...)"
Flush(cards, q, a) ==
    IF Truthy(q) /\ Truthy(a) THEN Append(cards, MakeCard(q, a)) ELSE cards

\* variant: 'Question:' is taken to be 8 characters long
QuestionTextShortPrefix(line) ==
    IF StartsWith(line, PrefixQ) THEN Strip(DropFirst(line, 2))
    ELSE Strip(DropFirst(line, 8))
\* the text after the prefix of a Q:/Question: line, and of an A:/Answer: line
QuestionText(line) ==
    IF StartsWith(line, PrefixQ) THEN Strip(DropFirst(line, 2))
    ELSE Strip(DropFirst(line, 9))
AnswerText(line) ==
    IF StartsWith(line, PrefixA) THEN Strip(DropFirst(line, 2))
    ELSE Strip(DropFirst(line, 7))

\* variant: a question line does not clear current_answer
ParseLineKeepAnswer(st, raw) ==
    LET line == Strip(raw)
    IN  IF IsQuestionLine(line)
        THEN [cq |-> QuestionText(line), ca |-> st.ca,
              cards |-> Flush(st.cards, st.cq, st.ca)]
        ELSE IF IsAnswerLine(line)
        THEN [st EXCEPT !.ca = AnswerText(line)]
        ELSE IF Truthy(st.cq) /\ ~Truthy(st.ca)
        THEN [st EXCEPT !.cq = st.cq \o <<" ">> \o line]
        ELSE IF Truthy(st.ca)
        THEN [st EXCEPT !.ca = st.ca \o <<" ">> \o line]
        ELSE st
\* one iteration of "for line in lines" on the registers st = [cq, ca, cards]
ParseLine(st, raw) ==
    LET line == Strip(raw)
    IN  IF IsQuestionLine(line)
        THEN [cq |-> QuestionText(line), ca |-> None,
              cards |-> Flush(st.cards, st.cq, st.ca)]
        ELSE IF IsAnswerLine(line)
        THEN [st EXCEPT !.ca = AnswerText(line)]
        ELSE IF Truthy(st.cq) /\ ~Truthy(st.ca)
        THEN [st EXCEPT !.cq = st.cq \o <<" ">> \o line]
        ELSE IF Truthy(st.ca)
        THEN [st EXCEPT !.ca = st.ca \o <<" ">> \o line]
        ELSE st

RECURSIVE ParseLines(_, _)
ParseLines(st, ls) ==
    IF ls = <<>> THEN st ELSE ParseLines(ParseLine(st, Head(ls)), Tail(ls))

\* the loop over the given lines followed by the final flush
ParseOfLines(ls) ==
    LET st == ParseLines([cq |-> None, ca |-> None, cards |-> <<>>], ls)
    IN  Flush(st.cards, st.cq, st.ca)

\* the whole function, as a value
ParseFlashcards(r) == ParseOfLines(SplitLines(r))

ParseCall ==
    /\ pc_parse = "call"
    /\ lines' = SplitLines(response)
    /\ line_no' = 0
    /\ current_question' = None
    /\ current_answer' = None
    /\ flashcards' = <<>>
    /\ pc_parse' = "loop"
    /\ UNCHANGED response
    /\ UNCHANGED <<chunkVars, genVars, sysVars, textVars, cliVars>>

ParseLoop ==
    /\ pc_parse = "loop"
    /\ line_no < Len(lines)
    /\ LET st == ParseLine([cq |-> current_question, ca |-> current_answer,
                            cards |-> flashcards], lines[line_no + 1])
       IN  /\ current_question' = st.cq
           /\ current_answer' = st.ca
           /\ flashcards' = st.cards
    /\ line_no' = line_no + 1
    /\ UNCHANGED <<response, lines, pc_parse>>
    /\ UNCHANGED <<chunkVars, genVars, sysVars, textVars, cliVars>>

ParseReturn ==
    /\ pc_parse = "loop"
    /\ line_no = Len(lines)
    /\ flashcards' = Flush(flashcards, current_question, current_answer)
    /\ pc_parse' = "done"
    /\ UNCHANGED <<response, lines, line_no, current_question, current_answer>>
    /\ UNCHANGED <<chunkVars, genVars, sysVars, textVars, cliVars>>

\* the lines responses are made of
LineVocab ==
    { <<"Q", ":", " ", "x", " ">>,
      <<"Q", "u", "e", "s", "t", "i", "o", "n", ":", " ", "y">>,
      <<"A", ":", " ", "z">>,
      <<"A", "n", "s", "w", "e", "r", ":", " ", " ", "w">>,
      <<"Q", ":", " ", " ">>,
      <<"A", ":", " ", " ">>,
      <<"t">>,
      <<>>,
      <<" ", "Q", ":", "x">> }

\* longer responses: a question left unanswered between two complete
\* pairs, and an answer continued over two lines before the next pair
ScenarioResponses ==
    { JoinLines(<< <<"Q", ":", " ", "x">>, <<"A", ":", " ", "z">>,
                   <<"Q", ":", " ", "o">>, <<"t">>,
                   <<"Q", "u", "e", "s", "t", "i", "o", "n", ":", " ", "y">>,
                   <<"A", "n", "s", "w", "e", "r", ":", " ", "w">> >>),
      JoinLines(<< <<"Q", ":", " ", "x">>, <<"A", ":", " ", "z">>,
                   <<"t">>, <<>>, <<"t">>,
                   <<"Q", ":", " ", "y">>, <<"A", ":", " ", "w">> >>) }

Responses ==
    {JoinLines(ls) : ls \in UNION {[1 .. k -> LineVocab] : k \in 0 .. MaxLines}}
        \cup ScenarioResponses

ParseIdle ==
    /\ response = <<>>
    /\ lines = <<>>
    /\ line_no = 0
    /\ current_question = None
    /\ current_answer = None
    /\ flashcards = <<>>
    /\ pc_parse = "idle"

ParseInputs ==
    /\ response \in Responses
    /\ lines = <<>>
    /\ line_no = 0
    /\ current_question = None
    /\ current_answer = None
    /\ flashcards = <<>>
    /\ pc_parse = "call"

NextParse == ParseCall \/ ParseLoop \/ ParseReturn

----------------------------------------------------------------------------
(* BitNetFlashcardGenerator.load_model, generate_flashcards *)

\* how many leading chunks generate_flashcards uses
ChunkLimit == 3

\* s[:n]
TakeFirst(s, n) == SubSeq(s, 1, SliceIndex(n, Len(s)))

\* variant: every chunk is used
UsedChunksAll(cs) == cs
\* content['chunks'][:3]
UsedChunks(cs) == TakeFirst(cs, ChunkLimit)

\* variant: the result is not truncated
LimitCardsNone(cards, n) == cards
\* flashcards[:num_cards]
LimitCards(cards, n) == TakeFirst(cards, n)

\* variant: the loop never breaks early
EnoughCardsNever(cards, n) == FALSE
\* "if len(flashcards) >= num_cards: break"
EnoughCards(cards, n) == Len(cards) >= n

\* the number of cards each prompt asks for
CardsPerChunk(n) == (n \div 3) + 1

\* what the model may answer to a prompt, as decoded text
GenResponses ==
    { <<"t">>,
      <<"Q", ":", " ", "x", NL, "A", ":", " ", "z">>,
      <<"Q", "u", "e", "s", "t", "i", "o", "n", ":", " ", "y", NL,
        "A", "n", "s", "w", "e", "r", ":", " ", "w", NL,
        "Q", ":", " ", "x", " ", NL, "A", ":", " ", "z">>,
      <<"Q", ":", NL, "A", ":", " ", "z", NL, "Q", ":", "y", NL, "t", NL,
        "A", ":", "w">> }

\* what _generate_from_chunk can do: return the cards parsed from the
\* response, or return [] because tokenizing, generating, decoding or
\* parsing raised and the exception was caught
GenerateOutcomes ==
    {[raised |-> FALSE, cards |-> ParseFlashcards(r)] : r \in GenResponses}
        \cup {[raised |-> TRUE, cards |-> <<>>]}

\* load_model: "if self.is_loaded: return"
\* variant: the model is loaded on every call
LoadNeededAlways(loaded) == TRUE
LoadNeeded(loaded) == ~loaded

\* load_model ran to its end: nothing to do, or tokenizer and model loaded
LoadModelReturns ==
    IF LoadNeeded(is_loaded)
    THEN /\ tokenizer' = "loaded"
         /\ model' = "loaded"
         /\ is_loaded' = TRUE
         /\ loads' = loads + 1
    ELSE UNCHANGED <<is_loaded, tokenizer, model, loads>>

\* load_model raised: from_pretrained failed for the tokenizer, or for the
\* model after the tokenizer was set; the exception is re-raised
LoadModelRaises ==
    /\ LoadNeeded(is_loaded)
    /\ \/ UNCHANGED tokenizer
       \/ tokenizer' = "loaded"
    /\ UNCHANGED <<is_loaded, model, loads>>

\* "if not self.is_loaded: self.load_model()" succeeded, or nothing to load
GenCall ==
    /\ pc_gen = "call"
    /\ IF is_loaded
       THEN UNCHANGED <<is_loaded, tokenizer, model, loads>>
       ELSE LoadModelReturns
    /\ gen_flashcards' = <<>>
    /\ chunk_index' = 0
    /\ pc_gen' = "loop"
    /\ UNCHANGED <<content_chunks, num_cards, requests, collected>>
    /\ UNCHANGED <<chunkVars, parseVars, sysVars, textVars, cliVars>>

\* "if not self.is_loaded: self.load_model()" and load_model raised
GenCallLoadRaises ==
    /\ pc_gen = "call"
    /\ ~is_loaded
    /\ LoadModelRaises
    /\ pc_gen' = "raised"
    /\ UNCHANGED <<content_chunks, num_cards, chunk_index,
                   gen_flashcards, requests, collected>>
    /\ UNCHANGED <<chunkVars, parseVars, sysVars, textVars, cliVars>>

\* where the loop goes after a chunk: "if len(flashcards) >= num_cards: break"
\* variant: a raising model call ends generate_flashcards with the exception
AfterChunkAbort(outcome, cards, n) ==
    IF outcome.raised THEN "raised"
    ELSE IF EnoughCards(cards, n) THEN "limit" ELSE "loop"
AfterChunk(outcome, cards, n) ==
    IF EnoughCards(cards, n) THEN "limit" ELSE "loop"

\* one iteration of "for i, chunk in enumerate(content['chunks'][:3])"
GenChunk ==
    /\ pc_gen = "loop"
    /\ chunk_index < Len(UsedChunks(content_chunks))
    /\ \E outcome \in GenerateOutcomes :
          /\ requests' = Append(requests,
                 [chunk |-> UsedChunks(content_chunks)[chunk_index + 1],
                  count |-> CardsPerChunk(num_cards),
                  before |-> Len(gen_flashcards),
                  raised |-> outcome.raised])
          /\ gen_flashcards' = gen_flashcards \o outcome.cards
          /\ collected' = collected \o outcome.cards
          /\ pc_gen' = AfterChunk(outcome, gen_flashcards', num_cards)
    /\ chunk_index' = chunk_index + 1
    /\ UNCHANGED <<is_loaded, tokenizer, model, content_chunks, num_cards, loads>>
    /\ UNCHANGED <<chunkVars, parseVars, sysVars, textVars, cliVars>>

\* after the loop: "flashcards = flashcards[:num_cards]; return flashcards"
GenReturn ==
    /\ \/ pc_gen = "limit"
       \/ pc_gen = "loop" /\ chunk_index >= Len(UsedChunks(content_chunks))
    /\ gen_flashcards' = LimitCards(gen_flashcards, num_cards)
    /\ pc_gen' = "done"
    /\ UNCHANGED <<is_loaded, tokenizer, model, content_chunks, num_cards,
                   chunk_index, requests, collected, loads>>
    /\ UNCHANGED <<chunkVars, parseVars, sysVars, textVars, cliVars>>

GenIdle ==
    /\ is_loaded = FALSE
    /\ tokenizer = "None"
    /\ model = "None"
    /\ content_chunks = <<>>
    /\ num_cards = 0
    /\ chunk_index = 0
    /\ gen_flashcards = <<>>
    /\ requests = <<>>
    /\ collected = <<>>
    /\ loads = 0
    /\ pc_gen = "idle"

\* a generator as constructed, or one whose model an earlier call loaded
GenInputs ==
    /\ \/ is_loaded = FALSE /\ tokenizer = "None" /\ model = "None"
       \/ is_loaded = TRUE /\ tokenizer = "loaded" /\ model = "loaded"
    /\ \E n \in 0 .. MaxChunks : content_chunks = [k \in 1 .. n |-> k]
    /\ num_cards \in -1 .. MaxNumCards
    /\ chunk_index = 0
    /\ gen_flashcards = <<>>
    /\ requests = <<>>
    /\ collected = <<>>
    /\ loads = IF is_loaded THEN 1 ELSE 0
    /\ pc_gen = "call"

NextGen == GenCall \/ GenCallLoadRaises \/ GenChunk \/ GenReturn

----------------------------------------------------------------------------
(* WikipediaProcessor.clean_text *)

Digits == {"0", "1", "2", "3", "4", "5", "6", "7", "8", "9"}

\* the straight quotes, and the curly quotes U+201C, U+201D, U+2018 and
\* U+2019, each of which is one character of a string
DQ == "\""
SQ == "'"
LDQ == "U+201C"
RDQ == "U+201D"
LSQ == "U+2018"
RSQ == "U+2019"
CurlyQuotes == {LDQ, RDQ, LSQ, RSQ}

\* re.sub(r'\s+', ' ', text): every maximal whitespace run becomes one space
RECURSIVE CollapseWhitespace(_)
CollapseWhitespace(s) ==
    IF s = <<>> THEN <<>>
    ELSE IF Head(s) \in Whitespace
         THEN <<" ">> \o CollapseWhitespace(LStrip(s))
         ELSE <<Head(s)>> \o CollapseWhitespace(Tail(s))

\* the length of the run of digits s starts with
RECURSIVE DigitRun(_)
DigitRun(s) ==
    IF s # <<>> /\ Head(s) \in Digits THEN 1 + DigitRun(Tail(s)) ELSE 0

\* the length of the match of \[\d+\] at the start of s, 0 without a match
CitationMatch(s) ==
    IF s # <<>> /\ Head(s) = "[" /\ DigitRun(Tail(s)) >= 1
          /\ Len(s) >= DigitRun(Tail(s)) + 2
          /\ s[DigitRun(Tail(s)) + 2] = "]"
    THEN DigitRun(Tail(s)) + 2
    ELSE 0

\* re.sub(r'\[\d+\]', '', text): one pass from left to right
RECURSIVE RemoveCitations(_)
RemoveCitations(s) ==
    IF s = <<>> THEN <<>>
    ELSE IF CitationMatch(s) > 0
         THEN RemoveCitations(DropFirst(s, CitationMatch(s)))
         ELSE <<Head(s)>> \o RemoveCitations(Tail(s))

\* str.replace(old, new) for a non-empty old: one pass from left to right
RECURSIVE ReplaceAll(_, _, _)
ReplaceAll(s, old, new) ==
    IF s = <<>> THEN <<>>
    ELSE IF StartsWith(s, old)
         THEN new \o ReplaceAll(DropFirst(s, Len(old)), old, new)
         ELSE <<Head(s)>> \o ReplaceAll(Tail(s), old, new)

EditMarker == <<"[", "e", "d", "i", "t", "]">>

\* re.sub(r'\[edit\]', '', text)
RemoveEditMarkers(s) == ReplaceAll(s, EditMarker, <<>>)

\* text.replace('"', '"').replace('"', '"'): both calls replace the straight
\* double quote by itself
ReplaceDoubleQuotes(s) ==
    ReplaceAll(ReplaceAll(s, <<DQ>>, <<DQ>>), <<DQ>>, <<DQ>>)

\* the first argument of the call in the following line of clean_text: the
\* three quotes open a string that runs up to the next three quotes
QuoteCallFragment ==
    <<",", " ", DQ, SQ, DQ, ")", ".", "r", "e", "p", "l", "a", "c", "e", "(">>

\* text.replace(''', "'").replace(''', "'"): one call, which replaces the
\* fragment above by a straight single quote
ReplaceSingleQuotes(s) == ReplaceAll(s, QuoteCallFragment, <<SQ>>)

\* clean_text
CleanText(s) ==
    Strip(ReplaceSingleQuotes(ReplaceDoubleQuotes(
        RemoveEditMarkers(RemoveCitations(CollapseWhitespace(s))))))

CleanCall ==
    /\ pc_clean = "call"
    /\ cleaned' = CleanText(raw_text)
    /\ pc_clean' = "done"
    /\ UNCHANGED <<raw_text, concept_text, sentences, key_concepts,
                   pc_concepts>>
    /\ UNCHANGED <<chunkVars, parseVars, genVars, sysVars, cliVars>>

\* the pieces the explored texts are put together from
CleanPieces ==
    {<<"a">>, <<"a", " ">>, <<" ", "b">>, <<" ">>, <<"\t">>, <<"[">>, <<"]">>, <<"1">>, <<"[", "1", "]">>,
     EditMarker, <<LDQ>>, <<RDQ>>, <<LSQ>>, <<RSQ>>, <<DQ>>, <<SQ>>,
     QuoteCallFragment}

RECURSIVE Flatten(_)
Flatten(ss) == IF ss = <<>> THEN <<>> ELSE Head(ss) \o Flatten(Tail(ss))

CleanTexts ==
    {Flatten(ps) : ps \in UNION {[1 .. n -> CleanPieces] : n \in 0 .. MaxPieces}}

CleanIdle == raw_text = <<>> /\ cleaned = <<>> /\ pc_clean = "idle"

CleanInputs == raw_text \in CleanTexts /\ cleaned = <<>> /\ pc_clean = "call"

----------------------------------------------------------------------------
(* WikipediaProcessor.extract_key_concepts *)

UpperLetters ==
    <<"A", "B", "C", "D", "E", "F", "G", "H", "I", "J", "K", "L", "M",
      "N", "O", "P", "Q", "R", "S", "T", "U", "V", "W", "X", "Y", "Z">>
LowerLetters ==
    <<"a", "b", "c", "d", "e", "f", "g", "h", "i", "j", "k", "l", "m",
      "n", "o", "p", "q", "r", "s", "t", "u", "v", "w", "x", "y", "z">>

Range(f) == {f[k] : k \in DOMAIN f}

\* str.isupper() of one character, str.isalpha() of a word
IsUpper(c) == c \in Range(UpperLetters)
IsAlpha(word) ==
    /\ word # <<>>
    /\ \A k \in 1 .. Len(word) :
          word[k] \in Range(UpperLetters) \cup Range(LowerLetters)

\* the word that s starts with (s does not start with whitespace)
RECURSIVE FirstWord(_)
FirstWord(s) ==
    IF s = <<>> \/ Head(s) \in Whitespace THEN <<>>
    ELSE <<Head(s)>> \o FirstWord(Tail(s))

\* str.split()
RECURSIVE SplitWords(_)
SplitWords(s) ==
    IF LStrip(s) = <<>> THEN <<>>
    ELSE <<FirstWord(LStrip(s))>>
            \o SplitWords(DropFirst(LStrip(s), Len(FirstWord(LStrip(s)))))

SentenceEnders == {".", "!", "?"}

\* the words after which a sentence may end: those ending in . ! or ?
CutPoints(words) ==
    {k \in 1 .. Len(words) - 1 : words[k][Len(words[k])] \in SentenceEnders}

\* the words cut into sentences after the words numbered in cuts
RECURSIVE CutAt(_, _, _)
CutAt(words, cuts, from) ==
    IF from > Len(words) THEN <<>>
    ELSE LET to == IF \E k \in cuts : k >= from
                   THEN SetMin({k \in cuts : k >= from})
                   ELSE Len(words)
         IN  <<SubSeq(words, from, to)>> \o CutAt(words, cuts, to + 1)

\* nltk.sent_tokenize(text), each sentence given by sentence.split(): the
\* tokenizer ends a sentence at some of the cut points, which ones being
\* decided by its trained model
SentTokenize(s) ==
    {CutAt(SplitWords(s), cuts, 1) : cuts \in SUBSET CutPoints(SplitWords(s))}

Stoplist ==
    {<<"T", "h", "e">>, <<"T", "h", "i", "s">>, <<"T", "h", "a", "t">>,
     <<"T", "h", "e", "r", "e">>, <<"T", "h", "e", "s", "e">>,
     <<"T", "h", "o", "s", "e">>}

\* the test a word passes to be a key concept
\* variant: words of three characters pass
IsConceptShort(word) ==
    /\ Len(word) >= 3
    /\ IsUpper(word[1])
    /\ IsAlpha(word)
    /\ word \notin Stoplist
IsConcept(word) ==
    /\ Len(word) > 3
    /\ IsUpper(word[1])
    /\ IsAlpha(word)
    /\ word \notin Stoplist

\* key_concepts after the two loops
RECURSIVE CollectConcepts(_)
CollectConcepts(sents) ==
    IF sents = <<>> THEN <<>>
    ELSE SelectSeq(Head(sents), IsConcept) \o CollectConcepts(Tail(sents))

\* "return unique_concepts[:20]"
ConceptLimit == 20

\* seq without the repetitions of its elements
RECURSIVE Dedupe(_)
Dedupe(seq) ==
    IF seq = <<>> THEN <<>>
    ELSE LET d == Dedupe(SubSeq(seq, 1, Len(seq) - 1))
         IN  IF seq[Len(seq)] \in Range(d) THEN d ELSE Append(d, seq[Len(seq)])

Rotate(seq, r) == SubSeq(seq, r + 1, Len(seq)) \o SubSeq(seq, 1, r)

\* list(set(key_concepts)): the elements without repetition, in the order
\* the set iterates in; that order is the interpreter's, and is any order
\* for up to ArbitraryOrderLen elements and any rotation for more
SetOrders(seq) ==
    LET d == Dedupe(seq)
    IN  IF Len(d) <= ArbitraryOrderLen
        THEN {[k \in 1 .. Len(d) |-> d[p[k]]] : p \in Permutations(1 .. Len(d))}
        ELSE {Rotate(d, r) : r \in 0 .. Len(d) - 1}

ConceptsCall ==
    /\ pc_concepts = "call"
    /\ sentences' \in SentTokenize(concept_text)
    /\ pc_concepts' = "scan"
    /\ UNCHANGED <<raw_text, cleaned, pc_clean, concept_text, key_concepts>>
    /\ UNCHANGED <<chunkVars, parseVars, genVars, sysVars, cliVars>>

ConceptsReturn ==
    /\ pc_concepts = "scan"
    /\ \E unique_concepts \in SetOrders(CollectConcepts(sentences)) :
          key_concepts' = TakeFirst(unique_concepts, ConceptLimit)
    /\ pc_concepts' = "done"
    /\ UNCHANGED <<raw_text, cleaned, pc_clean, concept_text, sentences>>
    /\ UNCHANGED <<chunkVars, parseVars, genVars, sysVars, cliVars>>

RECURSIVE JoinWords(_)
JoinWords(ws) ==
    IF ws = <<>> THEN <<>>
    ELSE IF Len(ws) = 1 THEN ws[1]
    ELSE ws[1] \o <<" ">> \o JoinWords(Tail(ws))

\* the words the explored texts are put together from
ConceptWords ==
    {<<"T", "h", "e">>, <<"T", "h", "o", "s", "e">>, <<"C", "a", "t", "s">>,
     <<"C", "a", "t", "s", ".">>, <<"c", "a", "t", "s">>,
     <<"C", "a", "7", "s">>, <<"C", "a", "t">>, <<"i", "t", ".">>,
     <<"Z", "e", "b", "r", "a">>, <<"Z", "e", "b", "R", "A">>}

\* a text with more distinct concepts than the limit, one of them twice
ManyConcepts ==
    JoinWords([k \in 1 .. ConceptLimit + 3 |->
                 <<UpperLetters[IF k > ConceptLimit + 2 THEN 1 ELSE k],
                   "a", "b", "c">>])

ConceptTexts ==
    {JoinWords(ws) : ws \in UNION {[1 .. n -> ConceptWords] : n \in 0 .. MaxWords}}
        \cup {ManyConcepts, <<" ">> \o ManyConcepts \o <<NL, "T", "h", "e">>}

ConceptsIdle ==
    /\ concept_text = <<>>
    /\ sentences = <<>>
    /\ key_concepts = <<>>
    /\ pc_concepts = "idle"

ConceptsInputs ==
    /\ concept_text \in ConceptTexts
    /\ sentences = <<>>
    /\ key_concepts = <<>>
    /\ pc_concepts = "call"

TextIdle == CleanIdle /\ ConceptsIdle

NextText == CleanCall \/ ConceptsCall \/ ConceptsReturn

----------------------------------------------------------------------------
(* WikipediaProcessor.fetch_wikipedia_content, process_wikipedia_article *)

\* A URL is represented by what extract_wikipedia_title_from_url reads of it:
\* whether it contains 'wikipedia.org', and urlparse(url).path.split('/').

Wiki == <<"w", "i", "k", "i">>

\* path_parts.index('wiki'), 1-based; 0 when 'wiki' is no part
IndexOf(parts, x) ==
    IF \E k \in 1 .. Len(parts) : parts[k] = x
    THEN SetMin({k \in 1 .. Len(parts) : parts[k] = x})
    ELSE 0

\* the percent escapes that occur in the explored URLs
Escapes == {<<"2", "0">>, <<"4", "1">>}
Unescaped(h) == IF h = <<"2", "0">> THEN " " ELSE "A"

\* urllib.parse.unquote
RECURSIVE Unquote(_)
Unquote(s) ==
    IF s = <<>> THEN <<>>
    ELSE IF s[1] = "%" /\ Len(s) >= 3 /\ <<s[2], s[3]>> \in Escapes
         THEN <<Unescaped(<<s[2], s[3]>>)>> \o Unquote(SubSeq(s, 4, Len(s)))
         ELSE <<s[1]>> \o Unquote(Tail(s))

\* extract_wikipedia_title_from_url
ExtractTitle(url) ==
    IF url.mentions_wikipedia_org /\ IndexOf(url.path_parts, Wiki) > 0
          /\ IndexOf(url.path_parts, Wiki) + 1 <= Len(url.path_parts)
    THEN Unquote(url.path_parts[IndexOf(url.path_parts, Wiki) + 1])
    ELSE None

\* what the REST API call can do: raise (network error, timeout), answer 200
\* with a JSON body, answer 200 with a body that json() rejects, or answer
\* with another status
ApiOutcomes == {"raises", "ok", "bad_json", "other_status"}

\* what the scraping fallback can do: session.get or raise_for_status raises,
\* the page has no mw-content-text div, or the page is scraped
ScrapeOutcomes == {"raises", "no_content", "ok"}

\* the None that fetch_wikipedia_content and process_wikipedia_article return
NoContent == [type |-> "None", chunks |-> <<>>, chunk_count |-> 0]

\* the dictionary fetch_wikipedia_content returns (chunks are added later)
Fetched(type) == [type |-> type, chunks |-> <<>>, chunk_count |-> 0]

\* _scrape_wikipedia_html: every exception is caught and None returned
ScrapeWikipediaHtml(scrape) ==
    IF scrape = "ok" THEN Fetched("scraped") ELSE NoContent

\* fetch_wikipedia_content
\* variant: a URL without a title is still looked up
FetchWikipediaContentAnyTitle(url, api, scrape) ==
    IF api \in {"raises", "bad_json"} THEN NoContent
    ELSE IF api = "ok" THEN Fetched("standard")
    ELSE ScrapeWikipediaHtml(scrape)
FetchWikipediaContent(url, api, scrape) ==
    IF ~Truthy(ExtractTitle(url)) THEN NoContent
    ELSE IF api \in {"raises", "bad_json"} THEN NoContent
    ELSE IF api = "ok" THEN Fetched("standard")
    ELSE ScrapeWikipediaHtml(scrape)

\* what cleaning, concept extraction and chunking of a fetched article can
\* do: raise (sent_tokenize without its tokenizer data), or yield n chunks
ProcessOutcomes ==
    {[raises |-> TRUE, chunk_count |-> 0]}
        \cup {[raises |-> FALSE, chunk_count |-> n] : n \in 0 .. MaxChunks}

\* process_wikipedia_article when the processing does not raise: None when
\* the fetch failed ("if not content: return None"), else the article with
\* its chunks
ProcessWikipediaArticle(url, api, scrape, proc) ==
    IF FetchWikipediaContent(url, api, scrape) = NoContent THEN NoContent
    ELSE [type |-> FetchWikipediaContent(url, api, scrape).type,
          chunks |-> [k \in 1 .. proc.chunk_count |-> k],
          chunk_count |-> proc.chunk_count]

----------------------------------------------------------------------------
(* BitNetRAGSystem.initialize, process_wikipedia_to_flashcards *)

\* the None that process_wikipedia_to_flashcards returns
NoResult ==
    [content_cards |-> <<>>, summary_cards |-> <<>>, total_cards |-> -1,
     chunk_count |-> -1, chunks_processed |-> -1]

\* "if not self.is_initialized: self.initialize()" returned
SysCall ==
    /\ pc_sys = "call"
    /\ IF is_initialized
       THEN UNCHANGED <<is_initialized, is_loaded, tokenizer, model, loads>>
       ELSE LoadModelReturns /\ is_initialized' = TRUE
    /\ pc_sys' = "fetch"
    /\ UNCHANGED <<calls, wikipedia_url, include_summary, content,
                   summary_requests, summary_flashcards, result, failures>>
    /\ UNCHANGED <<content_chunks, num_cards, chunk_index, gen_flashcards,
                   requests, collected, pc_gen>>
    /\ UNCHANGED <<chunkVars, parseVars, textVars, cliVars>>

\* where the call stands after initialize re-raised load_model's exception:
\* the call "self.initialize()" is made before the try block is entered
AfterInitializeRaised == "raised"

\* "if not self.is_initialized: self.initialize()" and load_model raised
SysCallInitializeRaises ==
    /\ pc_sys = "call"
    /\ ~is_initialized
    /\ LoadModelRaises
    /\ failures' = failures \cup {"load"}
    /\ pc_sys' = AfterInitializeRaised
    /\ UNCHANGED <<is_initialized, calls, wikipedia_url, include_summary,
                   content, summary_requests, summary_flashcards, result>>
    /\ UNCHANGED <<content_chunks, num_cards, chunk_index, gen_flashcards,
                   requests, collected, pc_gen>>
    /\ UNCHANGED <<chunkVars, parseVars, textVars, cliVars>>

\* step 1: process_wikipedia_article; "if not content: raise ValueError" and
\* an exception of the processing end in "except Exception: return None";
\* otherwise step 2 calls generate_flashcards(content, num_cards)
SysFetch ==
    /\ pc_sys = "fetch"
    /\ \E api \in ApiOutcomes, scrape \in ScrapeOutcomes,
          proc \in ProcessOutcomes :
          LET article == ProcessWikipediaArticle(wikipedia_url, api, scrape, proc)
          IN  IF article = NoContent \/ proc.raises
              THEN /\ failures' = failures \cup
                          {IF article = NoContent THEN "fetch" ELSE "process"}
                   /\ result' = NoResult
                   /\ pc_sys' = "returned"
                   /\ UNCHANGED <<content, content_chunks, pc_gen>>
              ELSE /\ content' = article
                   /\ content_chunks' = article.chunks
                   /\ pc_gen' = "call"
                   /\ pc_sys' = "generate"
                   /\ UNCHANGED <<failures, result>>
    /\ UNCHANGED <<is_initialized, calls, wikipedia_url, include_summary,
                   summary_requests, summary_flashcards>>
    /\ UNCHANGED <<is_loaded, tokenizer, model, num_cards, chunk_index,
                   gen_flashcards, requests, collected, loads>>
    /\ UNCHANGED <<chunkVars, parseVars, textVars, cliVars>>

\* step 4: the result dictionary
CompileResult(art, cards, summary) ==
    [content_cards |-> cards,
     summary_cards |-> summary,
     total_cards |-> Len(cards) + Len(summary),
     chunk_count |-> art.chunk_count,
     chunks_processed |-> Min2(ChunkLimit, art.chunk_count)]

\* generate_flashcards came back (an exception of it would be caught by
\* "except Exception: return None"); step 3 "if include_summary:" follows, or
\* the result is compiled at once with summary_flashcards = []
SysGenerated ==
    /\ pc_sys = "generate"
    /\ pc_gen \in {"done", "raised"}
    /\ IF pc_gen = "raised"
       THEN /\ result' = NoResult
            /\ failures' = failures \cup {"generate"}
            /\ pc_sys' = "returned"
       ELSE /\ UNCHANGED failures
            /\ IF include_summary
               THEN pc_sys' = "summary" /\ UNCHANGED result
               ELSE /\ result' = CompileResult(content, gen_flashcards, <<>>)
                    /\ pc_sys' = "returned"
    /\ UNCHANGED <<is_initialized, calls, wikipedia_url, include_summary,
                   content, summary_requests, summary_flashcards>>
    /\ UNCHANGED <<chunkVars, parseVars, genVars, textVars, cliVars>>

\* step 3: generate_summary_flashcards, whose model call may raise and then
\* yields []; then the result is compiled
SysSummary ==
    /\ pc_sys = "summary"
    /\ is_loaded
    /\ \E outcome \in GenerateOutcomes :
          /\ summary_flashcards' = outcome.cards
          /\ failures' = IF outcome.raised THEN failures \cup {"summary"}
                         ELSE failures
          /\ result' = CompileResult(content, gen_flashcards, outcome.cards)
    /\ summary_requests' = summary_requests + 1
    /\ pc_sys' = "returned"
    /\ UNCHANGED <<is_initialized, calls, wikipedia_url, include_summary,
                   content>>
    /\ UNCHANGED <<chunkVars, parseVars, genVars, textVars, cliVars>>

\* a system as constructed, on which nothing has been called
SysIdle ==
    /\ is_initialized = FALSE
    /\ calls = 0
    /\ wikipedia_url = [mentions_wikipedia_org |-> FALSE, path_parts |-> <<>>]
    /\ include_summary = TRUE
    /\ content = NoContent
    /\ summary_requests = 0
    /\ summary_flashcards = <<>>
    /\ result = NoResult
    /\ failures = {}
    /\ pc_sys = "idle"

----------------------------------------------------------------------------
(* Sequences of calls on one BitNetRAGSystem and its generator *)

\* no call is running and another may be made
SessionReady ==
    /\ pc_sys = "idle"
    /\ pc_gen \in {"idle", "done", "raised"}
    /\ calls < MaxCalls

\* BitNetRAGSystem.initialize(): returns at once when initialized, else
\* calls load_model and sets is_initialized unless load_model raised
SessInitialize ==
    /\ SessionReady
    /\ IF is_initialized
       THEN UNCHANGED <<is_initialized, is_loaded, tokenizer, model, loads>>
       ELSE \/ LoadModelReturns /\ is_initialized' = TRUE
            \/ LoadModelRaises /\ UNCHANGED is_initialized
    /\ calls' = calls + 1
    /\ UNCHANGED <<wikipedia_url, include_summary, content, summary_requests,
                   summary_flashcards, result, failures, pc_sys>>
    /\ UNCHANGED <<content_chunks, num_cards, chunk_index, gen_flashcards,
                   requests, collected, pc_gen>>
    /\ UNCHANGED <<chunkVars, parseVars, textVars, cliVars>>

\* BitNetFlashcardGenerator.load_model() called directly
SessLoadModel ==
    /\ SessionReady
    /\ LoadModelReturns \/ LoadModelRaises
    /\ calls' = calls + 1
    /\ UNCHANGED <<is_initialized, wikipedia_url, include_summary, content,
                   summary_requests, summary_flashcards, result, failures,
                   pc_sys>>
    /\ UNCHANGED <<content_chunks, num_cards, chunk_index, gen_flashcards,
                   requests, collected, pc_gen>>
    /\ UNCHANGED <<chunkVars, parseVars, textVars, cliVars>>

\* the contents and card counts the calls of a sequence are made with
SessionChunkCounts == 0 .. 2
SessionNumCards == 1 .. 2

\* generate_flashcards(content, num_cards) is called; its steps are GenCall,
\* GenCallLoadRaises, GenChunk and GenReturn
SessGenerateFlashcards ==
    /\ SessionReady
    /\ \E n \in SessionChunkCounts : content_chunks' = [k \in 1 .. n |-> k]
    /\ num_cards' \in SessionNumCards
    /\ chunk_index' = 0
    /\ gen_flashcards' = <<>>
    /\ requests' = <<>>
    /\ collected' = <<>>
    /\ pc_gen' = "call"
    /\ calls' = calls + 1
    /\ UNCHANGED <<is_loaded, tokenizer, model, loads>>
    /\ UNCHANGED <<is_initialized, wikipedia_url, include_summary, content,
                   summary_requests, summary_flashcards, result, failures,
                   pc_sys>>
    /\ UNCHANGED <<chunkVars, parseVars, textVars, cliVars>>

\* generate_summary_flashcards(content): "if not self.is_loaded:
\* self.load_model()", then one model call whose exception yields []
SessGenerateSummary ==
    /\ SessionReady
    /\ \/ /\ IF is_loaded
             THEN UNCHANGED <<is_loaded, tokenizer, model, loads>>
             ELSE LoadModelReturns
          /\ \E outcome \in GenerateOutcomes :
                summary_flashcards' = outcome.cards
          /\ summary_requests' = summary_requests + 1
       \/ /\ ~is_loaded
          /\ LoadModelRaises
          /\ UNCHANGED <<summary_flashcards, summary_requests>>
    /\ calls' = calls + 1
    /\ UNCHANGED <<is_initialized, wikipedia_url, include_summary, content,
                   result, failures, pc_sys>>
    /\ UNCHANGED <<content_chunks, num_cards, chunk_index, gen_flashcards,
                   requests, collected, pc_gen>>
    /\ UNCHANGED <<chunkVars, parseVars, textVars, cliVars>>

NextSess == SessInitialize \/ SessLoadModel \/ SessGenerateFlashcards
               \/ SessGenerateSummary

\* the explored URLs: an article, an article with an escaped title, /wiki/
\* with an empty title, /wiki without a title, a page outside /wiki/, and an
\* article path on a host that is not Wikipedia
Urls ==
    {[mentions_wikipedia_org |-> TRUE, path_parts |-> <<<<>>, Wiki, <<"A", "I">>>>],
     [mentions_wikipedia_org |-> TRUE,
      path_parts |-> <<<<>>, Wiki, <<"A", "%", "2", "0", "I">>>>],
     [mentions_wikipedia_org |-> TRUE, path_parts |-> <<<<>>, Wiki, <<>>>>],
     [mentions_wikipedia_org |-> TRUE, path_parts |-> <<<<>>, Wiki>>],
     [mentions_wikipedia_org |-> TRUE, path_parts |-> <<<<>>, <<"w">>, <<"x">>>>],
     [mentions_wikipedia_org |-> FALSE, path_parts |-> <<<<>>, Wiki, <<"A", "I">>>>]}

\* a call of process_wikipedia_to_flashcards on a system as constructed, on
\* one whose generator was loaded directly, or on an initialized one
SysInputs ==
    /\ \/ is_initialized = FALSE /\ is_loaded = FALSE
       \/ is_initialized = FALSE /\ is_loaded = TRUE
       \/ is_initialized = TRUE /\ is_loaded = TRUE
    /\ tokenizer = IF is_loaded THEN "loaded" ELSE "None"
    /\ model = IF is_loaded THEN "loaded" ELSE "None"
    /\ loads = IF is_loaded THEN 1 ELSE 0
    /\ content_chunks = <<>>
    /\ num_cards \in -1 .. MaxNumCards
    /\ chunk_index = 0
    /\ gen_flashcards = <<>>
    /\ requests = <<>>
    /\ collected = <<>>
    /\ pc_gen = "idle"
    /\ calls = 1
    /\ wikipedia_url \in Urls
    /\ include_summary \in BOOLEAN
    /\ content = NoContent
    /\ summary_requests = 0
    /\ summary_flashcards = <<>>
    /\ result = NoResult
    /\ failures = {}
    /\ pc_sys = "call"

NextSys == SysCall \/ SysCallInitializeRaises \/ SysFetch \/ SysGenerated
              \/ SysSummary

----------------------------------------------------------------------------
(* BitNetRAGSystem.interactive_mode *)

\* str.lower() of one character and of a string
LowerChar(c) ==
    IF \E k \in 1 .. Len(UpperLetters) : UpperLetters[k] = c
    THEN LowerLetters[CHOOSE k \in 1 .. Len(UpperLetters) : UpperLetters[k] = c]
    ELSE c
Lower(s) == [k \in 1 .. Len(s) |-> LowerChar(s[k])]

\* sub in s
Contains(s, sub) ==
    \E k \in 0 .. Len(s) - Len(sub) : StartsWith(DropFirst(s, k), sub)

WikipediaOrg ==
    <<"w", "i", "k", "i", "p", "e", "d", "i", "a", ".", "o", "r", "g">>

\* ['quit', 'exit', 'q']
QuitWords == {<<"q", "u", "i", "t">>, <<"e", "x", "i", "t">>, <<"q">>}

\* ['y', 'yes']
YesWords == {<<"y">>, <<"y", "e", "s">>}

\* the digits of an integer literal: what is left of the stripped string
\* after an optional sign
IntBody(s) ==
    IF Strip(s) # <<>> /\ Head(Strip(s)) \in {"+", "-"}
    THEN Tail(Strip(s))
    ELSE Strip(s)

\* int(s) does not raise ValueError: digits, with single underscores allowed
\* between them
IsIntLiteral(s) ==
    LET b == IntBody(s)
    IN  /\ b # <<>>
        /\ \A k \in 1 .. Len(b) : b[k] \in Digits \cup {"_"}
        /\ b[1] # "_" /\ b[Len(b)] # "_"
        /\ \A k \in 1 .. Len(b) - 1 : ~(b[k] = "_" /\ b[k + 1] = "_")

DigitSeq == <<"0", "1", "2", "3", "4", "5", "6", "7", "8", "9">>
DigitValue(c) == (CHOOSE k \in 1 .. Len(DigitSeq) : DigitSeq[k] = c) - 1

\* the value of a run of digits and underscores
RECURSIVE Magnitude(_)
Magnitude(b) ==
    IF b = <<>> THEN 0
    ELSE IF b[Len(b)] = "_" THEN Magnitude(SubSeq(b, 1, Len(b) - 1))
    ELSE 10 * Magnitude(SubSeq(b, 1, Len(b) - 1)) + DigitValue(b[Len(b)])

\* int(s) for an integer literal s
IntOf(s) ==
    IF Head(Strip(s)) = "-" THEN 0 - Magnitude(IntBody(s))
    ELSE Magnitude(IntBody(s))

\* input(...) or "10"
DefaultCount == <<"1", "0">>
OrDefault(s) == IF s = <<>> THEN DefaultCount ELSE s

\* "except ValueError: num_cards = 10"
FallbackCount == 10

\* "if num_cards < 1 or num_cards > 50" does not hold
\* variant: 0 is accepted
CountInRangeFromZero(n) == ~(n < 0 \/ n > 50)
CountInRange(n) == ~(n < 1 \/ n > 50)

\* the lines typed at the URL prompt
UrlLines ==
    {<<>>, <<" ">>,
     <<"q", "u", "i", "t">>, <<" ", "Q", "u", "I", "t", " ">>,
     <<"E", "X", "I", "T">>, <<"Q">>, <<"q", "u", "i", "t", "s">>,
     WikipediaOrg \o <<"/", "w", "i", "k", "i", "/", "X">>,
     <<" ">> \o WikipediaOrg \o <<"\t">>,
     <<"W">> \o Tail(WikipediaOrg),
     <<"q">> \o WikipediaOrg,
     <<"x", ".", "o", "r", "g">>}

\* the lines typed at the count prompt
CountLines ==
    {<<>>, <<" ">>, <<"0">>, <<"1">>, <<"5", "0">>, <<"5", "1">>, <<"-", "1">>,
     <<" ", "+", "7", " ">>, <<"1", "_", "2">>, <<"_", "1">>, <<"5", ".", "5">>,
     <<"a", "b", "c">>, <<"q", "u", "i", "t">>}

\* the lines typed at the save prompt
SaveLines == {<<>>, <<"y">>, <<"Y", "E", "S">>, <<"n">>, <<" ", "y">>}

\* "wikipedia_url = input(...).strip()" and the three tests that follow
CliUrlPrompt ==
    /\ pc_cli = "url"
    /\ rounds < MaxRounds
    /\ \E typed \in UrlLines :
          /\ last_input' = typed
          /\ typed_url' = Strip(typed)
    /\ pc_cli' = IF Lower(typed_url') \in QuitWords THEN "ended"
                 ELSE IF typed_url' = <<>> THEN "url"
                 ELSE IF ~Contains(typed_url', WikipediaOrg) THEN "url"
                 ELSE "count"
    /\ rounds' = rounds + 1
    /\ UNCHANGED <<cli_num_cards, invocations, saves>>
    /\ UNCHANGED <<chunkVars, parseVars, genVars, sysVars, textVars>>

\* "num_cards = int(input(...) or "10")" with its range test and its
\* ValueError handler
CliCountPrompt ==
    /\ pc_cli = "count"
    /\ rounds < MaxRounds
    /\ \E typed \in CountLines :
          /\ last_input' = typed
          /\ IF IsIntLiteral(OrDefault(typed))
             THEN IF CountInRange(IntOf(OrDefault(typed)))
                  THEN /\ cli_num_cards' = IntOf(OrDefault(typed))
                       /\ pc_cli' = "process"
                  ELSE /\ cli_num_cards' = IntOf(OrDefault(typed))
                       /\ pc_cli' = "url"
             ELSE /\ cli_num_cards' = FallbackCount
                  /\ pc_cli' = "process"
    /\ rounds' = rounds + 1
    /\ UNCHANGED <<typed_url, invocations, saves>>
    /\ UNCHANGED <<chunkVars, parseVars, genVars, sysVars, textVars>>

\* what process_wikipedia_to_flashcards can do: return a result, return None,
\* or raise, which "except Exception" catches
PipelineOutcomes == {"result", "none", "raises"}

\* "results = self.process_wikipedia_to_flashcards(wikipedia_url, num_cards)"
CliProcess ==
    /\ pc_cli = "process"
    /\ invocations' = Append(invocations,
                             [url |-> typed_url, num_cards |-> cli_num_cards])
    /\ \E outcome \in PipelineOutcomes :
          pc_cli' = IF outcome = "result" THEN "save" ELSE "url"
    /\ UNCHANGED <<typed_url, cli_num_cards, last_input, saves, rounds>>
    /\ UNCHANGED <<chunkVars, parseVars, genVars, sysVars, textVars>>

\* "save = input(...).lower()" and "if save in ['y', 'yes']"
CliSavePrompt ==
    /\ pc_cli = "save"
    /\ rounds < MaxRounds
    /\ \E typed \in SaveLines :
          /\ last_input' = typed
          /\ saves' = IF Lower(typed) \in YesWords THEN saves + 1 ELSE saves
    /\ pc_cli' = "url"
    /\ rounds' = rounds + 1
    /\ UNCHANGED <<typed_url, cli_num_cards, invocations>>
    /\ UNCHANGED <<chunkVars, parseVars, genVars, sysVars, textVars>>

AtPrompt == pc_cli \in {"url", "count", "save"}

\* Ctrl-C at a prompt: "except KeyboardInterrupt: break"
CliInterrupt ==
    /\ AtPrompt
    /\ pc_cli' = "ended"
    /\ UNCHANGED <<typed_url, cli_num_cards, last_input, invocations, saves,
                   rounds>>
    /\ UNCHANGED <<chunkVars, parseVars, genVars, sysVars, textVars>>

\* input() raises at a prompt (end of input): "except Exception" prints the
\* error and the loop starts over at the URL prompt
CliInputRaises ==
    /\ AtPrompt
    /\ pc_cli # "url"
    /\ pc_cli' = "url"
    /\ UNCHANGED <<typed_url, cli_num_cards, last_input, invocations, saves,
                   rounds>>
    /\ UNCHANGED <<chunkVars, parseVars, genVars, sysVars, textVars>>

CliIdle ==
    /\ typed_url = <<>>
    /\ cli_num_cards = 0
    /\ last_input = <<>>
    /\ invocations = <<>>
    /\ saves = 0
    /\ rounds = 0
    /\ pc_cli = "idle"

\* interactive_mode entered: the first URL prompt
CliInputs ==
    /\ typed_url = <<>>
    /\ cli_num_cards = 0
    /\ last_input = <<>>
    /\ invocations = <<>>
    /\ saves = 0
    /\ rounds = 0
    /\ pc_cli = "url"

NextCli == CliUrlPrompt \/ CliCountPrompt \/ CliProcess \/ CliSavePrompt
              \/ CliInterrupt \/ CliInputRaises

----------------------------------------------------------------------------
(* BitNetFlashcardGenerator._create_flashcard_prompt and the prompt of       *)
(* generate_summary_flashcards; responses that begin with the prompt         *)

\* str(n) as the f-string formats an integer
RECURSIVE Decimal(_)
Decimal(n) ==
    IF n < 0 THEN <<"-">> \o Decimal(0 - n)
    ELSE IF n < 10 THEN <<DigitSeq[n + 1]>>
    ELSE Decimal(n \div 10) \o <<DigitSeq[(n % 10) + 1]>>

\* the three constant parts of the f-string of _create_flashcard_prompt
PromptHead ==
    <<"B", "a", "s", "e", "d", " ", "o", "n", " ", "t", "h", "e", " ", "f",
      "o", "l", "l", "o", "w", "i", "n", "g", " ", "t", "e", "x", "t", ",",
      " ", "c", "r", "e", "a", "t", "e", " ">>

PromptBeforeText ==
    <<" ", "e", "d", "u", "c", "a", "t", "i", "o", "n", "a", "l", " ", "f",
      "l", "a", "s", "h", "c", "a", "r", "d", "s", ".", " ", "E", "a", "c",
      "h", " ", "f", "l", "a", "s", "h", "c", "a", "r", "d", " ", "s", "h",
      "o", "u", "l", "d", " ", "h", "a", "v", "e", " ", "a", " ", "c", "l",
      "e", "a", "r", " ", "q", "u", "e", "s", "t", "i", "o", "n", " ", "a",
      "n", "d", " ", "a", " ", "c", "o", "n", "c", "i", "s", "e", " ", "a",
      "n", "s", "w", "e", "r", ".", NL, NL, "T", "e", "x", "t", ":", " ">>

PromptTail ==
    <<NL, NL, "F", "o", "r", "m", "a", "t", " ", "e", "a", "c", "h", " ",
      "f", "l", "a", "s", "h", "c", "a", "r", "d", " ", "a", "s", ":", NL,
      "Q", ":", " ", "[", "Q", "u", "e", "s", "t", "i", "o", "n", "]", NL,
      "A", ":", " ", "[", "A", "n", "s", "w", "e", "r", "]", NL, NL, "G",
      "e", "n", "e", "r", "a", "t", "e", " ", "f", "l", "a", "s", "h", "c",
      "a", "r", "d", "s", " ", "t", "h", "a", "t", " ", "t", "e", "s", "t",
      " ", "u", "n", "d", "e", "r", "s", "t", "a", "n", "d", "i", "n", "g",
      " ", "o", "f", " ", "k", "e", "y", " ", "c", "o", "n", "c", "e", "p",
      "t", "s", ",", " ", "f", "a", "c", "t", "s", ",", " ", "a", "n", "d",
      " ", "r", "e", "l", "a", "t", "i", "o", "n", "s", "h", "i", "p", "s",
      " ", "i", "n", " ", "t", "h", "e", " ", "t", "e", "x", "t", ".">>

\* _create_flashcard_prompt(text, num_cards)
CreateFlashcardPrompt(chunk, n) ==
    PromptHead \o Decimal(n) \o PromptBeforeText \o TakeFirst(chunk, 800)
        \o PromptTail

\* the three constant parts of the f-string of generate_summary_flashcards
SummaryPromptHead ==
    <<"C", "r", "e", "a", "t", "e", " ", "5", " ", "c", "o", "m", "p", "r",
      "e", "h", "e", "n", "s", "i", "v", "e", " ", "f", "l", "a", "s", "h",
      "c", "a", "r", "d", "s", " ", "t", "h", "a", "t", " ", "s", "u", "m",
      "m", "a", "r", "i", "z", "e", " ", "t", "h", "e", " ", "k", "e", "y",
      " ", "p", "o", "i", "n", "t", "s", " ", "o", "f", " ", "t", "h", "i",
      "s", " ", "W", "i", "k", "i", "p", "e", "d", "i", "a", " ", "a", "r",
      "t", "i", "c", "l", "e", " ", "a", "b", "o", "u", "t", " ">>

SummaryPromptBeforeText ==
    <<".", NL, NL, "A", "r", "t", "i", "c", "l", "e", " ", "c", "o", "n",
      "t", "e", "n", "t", ":", " ">>

SummaryPromptTail ==
    <<NL, NL, "C", "r", "e", "a", "t", "e", " ", "f", "l", "a", "s", "h",
      "c", "a", "r", "d", "s", " ", "t", "h", "a", "t", " ", "c", "o", "v",
      "e", "r", ":", NL, "1", ".", " ", "M", "a", "i", "n", " ", "d", "e",
      "f", "i", "n", "i", "t", "i", "o", "n", "/", "c", "o", "n", "c", "e",
      "p", "t", NL, "2", ".", " ", "K", "e", "y", " ", "c", "h", "a", "r",
      "a", "c", "t", "e", "r", "i", "s", "t", "i", "c", "s", " ", "o", "r",
      " ", "f", "e", "a", "t", "u", "r", "e", "s", " ", " ", NL, "3", ".",
      " ", "I", "m", "p", "o", "r", "t", "a", "n", "t", " ", "e", "x", "a",
      "m", "p", "l", "e", "s", " ", "o", "r", " ", "a", "p", "p", "l", "i",
      "c", "a", "t", "i", "o", "n", "s", NL, "4", ".", " ", "H", "i", "s",
      "t", "o", "r", "i", "c", "a", "l", " ", "c", "o", "n", "t", "e", "x",
      "t", " ", "o", "r", " ", "s", "i", "g", "n", "i", "f", "i", "c", "a",
      "n", "c", "e", NL, "5", ".", " ", "R", "e", "l", "a", "t", "e", "d",
      " ", "c", "o", "n", "c", "e", "p", "t", "s", " ", "o", "r", " ", "c",
      "o", "n", "n", "e", "c", "t", "i", "o", "n", "s", NL, NL, "F", "o",
      "r", "m", "a", "t", " ", "e", "a", "c", "h", " ", "a", "s", ":", NL,
      "Q", ":", " ", "[", "Q", "u", "e", "s", "t", "i", "o", "n", "]", NL,
      "A", ":", " ", "[", "A", "n", "s", "w", "e", "r", "]">>

\* the prompt of generate_summary_flashcards(content)
SummaryPrompt(c) ==
    SummaryPromptHead \o c.title \o SummaryPromptBeforeText
        \o TakeFirst(c.full_text, 1500) \o SummaryPromptTail

\* what the model may generate after the prompt it was given
Continuations ==
    {<<>>, <<" ", "t">>} \cup {<<NL>> \o r : r \in GenResponses}

\* tokenizer.decode(outputs[0], skip_special_tokens=True) when the output
\* holds the tokens of the prompt followed by the generated tokens
DecodedResponse(prompt, generated) == prompt \o generated

\* one iteration of the loop of generate_flashcards, its model call going
\* well: _create_flashcard_prompt, _generate_from_chunk, extend, limit test
GenChunkEcho ==
    /\ pc_gen = "loop"
    /\ chunk_index < Len(UsedChunks(content_chunks))
    /\ \E generated \in Continuations :
          LET chunk == UsedChunks(content_chunks)[chunk_index + 1]
              prompt == CreateFlashcardPrompt(chunk, CardsPerChunk(num_cards))
              chunk_cards == ParseFlashcards(DecodedResponse(prompt, generated))
          IN  /\ requests' = Append(requests,
                     [chunk |-> chunk,
                      count |-> CardsPerChunk(num_cards),
                      before |-> Len(gen_flashcards),
                      raised |-> FALSE,
                      generated |-> generated])
              /\ gen_flashcards' = gen_flashcards \o chunk_cards
              /\ collected' = collected \o chunk_cards
              /\ pc_gen' = AfterChunk([raised |-> FALSE, cards |-> chunk_cards],
                                      gen_flashcards', num_cards)
    /\ chunk_index' = chunk_index + 1
    /\ UNCHANGED <<is_loaded, tokenizer, model, content_chunks, num_cards, loads>>
    /\ UNCHANGED <<chunkVars, parseVars, sysVars, textVars, cliVars>>

\* generate_summary_flashcards(content) on the loaded generator, its model
\* call going well
SummaryEcho ==
    /\ pc_gen = "done"
    /\ is_loaded
    /\ summary_requests = 0
    /\ \E generated \in Continuations :
          summary_flashcards' =
              ParseFlashcards(DecodedResponse(SummaryPrompt(content), generated))
    /\ summary_requests' = summary_requests + 1
    /\ UNCHANGED <<is_initialized, calls, wikipedia_url, include_summary,
                   content, result, failures, pc_sys>>
    /\ UNCHANGED <<chunkVars, parseVars, genVars, textVars, cliVars>>

\* the chunks of the explored contents
EchoChunks == {<<"x">>, <<"A", ".", " ", "b">>}

\* generate_flashcards(content, num_cards) is called with a content of one
\* or two chunks, generate_summary_flashcards(content) after it
EchoInputs ==
    /\ \/ is_loaded = FALSE /\ tokenizer = "None" /\ model = "None"
       \/ is_loaded = TRUE /\ tokenizer = "loaded" /\ model = "loaded"
    /\ content_chunks \in UNION {[1 .. n -> EchoChunks] : n \in 1 .. 2}
    /\ num_cards \in 0 .. MaxNumCards
    /\ chunk_index = 0
    /\ gen_flashcards = <<>>
    /\ requests = <<>>
    /\ collected = <<>>
    /\ loads = IF is_loaded THEN 1 ELSE 0
    /\ pc_gen = "call"
    /\ is_initialized = FALSE
    /\ calls = 0
    /\ wikipedia_url = [mentions_wikipedia_org |-> FALSE, path_parts |-> <<>>]
    /\ include_summary = TRUE
    /\ content = [title |-> <<"T">>, full_text |-> JoinWords(content_chunks)]
    /\ summary_requests = 0
    /\ summary_flashcards = <<>>
    /\ result = NoResult
    /\ failures = {}
    /\ pc_sys = "idle"

NextEcho == GenCall \/ GenChunkEcho \/ GenReturn \/ SummaryEcho

----------------------------------------------------------------------------
(* Specifications: one call of chunk_text; one call of _parse_flashcards or *)
(* of generate_flashcards                                                   *)

InitChunk ==
    ChunkInputs /\ ParseIdle /\ GenIdle /\ SysIdle /\ TextIdle /\ CliIdle
SpecChunk == InitChunk /\ [][NextChunk]_vars

InitCards ==
    /\ ChunkIdle
    /\ SysIdle
    /\ TextIdle
    /\ CliIdle
    /\ \/ ParseInputs /\ GenIdle
       \/ ParseIdle /\ GenInputs
NextCards == NextParse \/ NextGen
SpecCards == InitCards /\ [][NextCards]_vars

\* a sequence of calls on a system as constructed
InitSession ==
    ChunkIdle /\ ParseIdle /\ GenIdle /\ SysIdle /\ TextIdle /\ CliIdle
NextSession == NextSess \/ NextGen
SpecSession == InitSession /\ [][NextSession]_vars

\* one call of process_wikipedia_to_flashcards
InitPipeline == ChunkIdle /\ ParseIdle /\ SysInputs /\ TextIdle /\ CliIdle

\* generate_flashcards, then generate_summary_flashcards, with a model whose
\* decoded output begins with the prompt
InitEcho == ChunkIdle /\ ParseIdle /\ TextIdle /\ CliIdle /\ EchoInputs
SpecEcho == InitEcho /\ [][NextEcho]_vars

\* one run of interactive_mode
InitCli ==
    ChunkIdle /\ ParseIdle /\ GenIdle /\ SysIdle /\ TextIdle /\ CliInputs
SpecCli == InitCli /\ [][NextCli]_vars

\* one call of clean_text or of extract_key_concepts
InitText ==
    /\ ChunkIdle /\ ParseIdle /\ GenIdle /\ SysIdle /\ CliIdle
    /\ \/ CleanInputs /\ ConceptsIdle
       \/ CleanIdle /\ ConceptsInputs
SpecText == InitText /\ [][NextText]_vars
NextPipeline == NextSys \/ GenCall \/ GenChunk \/ GenReturn
SpecPipeline == InitPipeline /\ [][NextPipeline]_vars

----------------------------------------------------------------------------
(* Properties of chunk_text *)

Returned == pc_chunk = "done"
LongText == text.len > max_chunk_size
Guarded == 0 <= overlap /\ overlap < max_chunk_size

InRange(p, r) == r.lo <= p /\ p < r.hi
InWindow(p, w) == w.start <= p /\ p < w.end

\* C1: for every text and every 0 <= overlap < max_chunk_size chunk_text
\* terminates.  The loop's only changing control state is start, so a call
\* that terminates never begins an iteration at a start it has already
\* processed; this states that consequence of termination.
C1_Terminates ==
    (pc_chunk = "loop" /\ Guarded) =>
        \A i \in 1 .. Len(windows) : windows[i].start # start

\* C6: a text no longer than max_chunk_size comes back as exactly one chunk
\* that equals the input with surrounding whitespace trimmed.
C6_SingleTrimmedChunk ==
    (Returned /\ ~LongText) =>
        /\ Len(chunks) = 1
        /\ RangeString(text, chunks[1]) =
               RangeString(text, StripRange(text, [lo |-> 0, hi |-> text.len]))

\* C6 (amended): a text no longer than max_chunk_size comes back as exactly
\* one chunk that equals the input unchanged, surrounding whitespace kept.
C6_SingleUnchangedChunk ==
    (Returned /\ ~LongText) =>
        /\ Len(chunks) = 1
        /\ RangeString(text, chunks[1]) =
               RangeString(text, [lo |-> 0, hi |-> text.len])

C6_Witness ==
    /\ Returned /\ ~LongText
    /\ 0 \in text.ws /\ text.len >= 2 /\ 1 \notin text.ws
    /\ Len(chunks) = 1 /\ RangeLen(chunks[1]) = text.len

\* C7: every chunk chunk_text returns has length <= max_chunk_size, and
\* snapping to a sentence end only moves a window's end backward, never past
\* start + max_chunk_size.  Stated of every call that returns and of every
\* list under construction while 0 <= overlap < max_chunk_size.
C7_ChunkWithinSize ==
    (Returned \/ Guarded) =>
        /\ \A i \in 1 .. Len(chunks) : RangeLen(chunks[i]) <= max_chunk_size
        /\ \A i \in 1 .. Len(windows) :
              /\ windows[i].end <= windows[i].raw
              /\ windows[i].raw = windows[i].start + max_chunk_size

C7_Witness ==
    /\ Returned /\ LongText
    /\ \E i \in 1 .. Len(windows) :
          /\ windows[i].end < windows[i].raw
          /\ RangeLen(windows[i].chunk) > 0
    /\ \E i \in 1 .. Len(chunks) : RangeLen(chunks[i]) = max_chunk_size

\* C8: for a long text and 0 <= overlap < max_chunk_size nothing is lost:
\* every character position of the text is contained in a returned chunk.
C8_NoCharacterLost ==
    (Returned /\ LongText /\ Guarded) =>
        \A p \in 0 .. text.len - 1 :
            \E i \in 1 .. Len(chunks) : InRange(p, chunks[i])

\* C8 (amended): for a long text and 0 <= overlap < max_chunk_size, when
\* chunk_text returns every character position lies in some window and every
\* non-whitespace character in some returned chunk (only whitespace at a
\* window's edge is dropped), and a position that lies in two windows lies
\* within the last overlap positions of the earlier one.
C8_OnlyEdgeWhitespaceLost ==
    (Returned /\ LongText /\ Guarded) =>
        /\ \A p \in 0 .. text.len - 1 :
              \E i \in 1 .. Len(windows) : InWindow(p, windows[i])
        /\ \A p \in (0 .. text.len - 1) \ text.ws :
              \E i \in 1 .. Len(chunks) : InRange(p, chunks[i])
        /\ \A i, j \in 1 .. Len(windows) :
              LET lo == Max2(windows[i].start, windows[j].start)
                  hi == Min2(windows[i].end, windows[j].end)
              IN  (i < j /\ lo < hi) => lo >= windows[i].end - overlap

C8_Witness ==
    /\ Returned /\ LongText /\ Guarded /\ overlap > 0
    /\ Len(chunks) >= 2
    /\ \E p \in text.ws : \A i \in 1 .. Len(chunks) : ~InRange(p, chunks[i])
    /\ \E p \in 0 .. text.len - 1 :
          InWindow(p, windows[1]) /\ InWindow(p, windows[2])

\* C9: chunk_text(text, 1000, 200) on a text longer than 1000 characters:
\* every window after the first starts at the previous window's end minus
\* 200, the window start strictly increases, and the loop stops at the first
\* window start that is >= len(text).
Defaults == max_chunk_size = DefaultChunkSize /\ overlap = DefaultOverlap

C9_DefaultWindows ==
    (Defaults /\ LongText /\ pc_chunk \in {"loop", "done"}) =>
        /\ \A i \in 2 .. Len(windows) :
              /\ windows[i].start = windows[i - 1].end - 200
              /\ windows[i].start > windows[i - 1].start
        /\ \A i \in 1 .. Len(windows) : windows[i].start < text.len
        /\ Len(windows) > 0 =>
              /\ start = windows[Len(windows)].end - 200
              /\ start > windows[Len(windows)].start
        /\ Returned <=> (Len(windows) > 0 /\ start >= text.len)

C9_Witness ==
    /\ Defaults /\ Returned /\ text.len = 2500
    /\ Len(windows) >= 3
    /\ windows[1].end < windows[1].raw
----------------------------------------------------------------------------
(* Properties of _parse_flashcards *)

Parsed == pc_parse = "done"

NonBlank(str) == Strip(str) # <<>>

\* a line written as '<prefix> <body>' with a non-empty body, and that body
HasForm(line, prefix) ==
    StartsWith(line, prefix \o <<" ">>) /\ Len(line) > Len(prefix) + 1
BodyOf(line, prefix) == DropFirst(line, Len(prefix) + 1)

IsQForm(line) == HasForm(line, PrefixQ) \/ HasForm(line, PrefixQuestion)
IsAForm(line) == HasForm(line, PrefixA) \/ HasForm(line, PrefixAnswer)
QBody(line) ==
    IF HasForm(line, PrefixQ) THEN BodyOf(line, PrefixQ)
    ELSE BodyOf(line, PrefixQuestion)
ABody(line) ==
    IF HasForm(line, PrefixA) THEN BodyOf(line, PrefixA)
    ELSE BodyOf(line, PrefixAnswer)

\* the input is n >= 1 consecutive line pairs 'Q: q_i' / 'A: a_i'
PairForm(ls) ==
    /\ Len(ls) >= 2 /\ Len(ls) % 2 = 0
    /\ \A i \in 1 .. Len(ls) :
          IF i % 2 = 1 THEN IsQForm(ls[i]) ELSE IsAForm(ls[i])

PairCards(ls) ==
    [i \in 1 .. (Len(ls) \div 2) |->
        [question |-> Strip(QBody(ls[2 * i - 1])),
         answer |-> Strip(ABody(ls[2 * i]))]]

\* C2: an input of n line pairs 'Q: q_i' / 'A: a_i' with non-empty q_i and
\* a_i parses to exactly n cards, in order, the i-th being q_i and a_i trimmed.
C2_PairsParsed ==
    (Parsed /\ PairForm(lines)) => flashcards = PairCards(lines)

\* C2 (amended): the same, for q_i and a_i that are non-empty after trimming.
C2_NonBlankPairsParsed ==
    (Parsed /\ PairForm(lines)
        /\ \A i \in 1 .. Len(lines) :
              IF i % 2 = 1 THEN NonBlank(QBody(lines[i]))
              ELSE NonBlank(ABody(lines[i])))
    => flashcards = PairCards(lines)

C2_Witness ==
    /\ Parsed /\ PairForm(lines) /\ Len(lines) = 4
    /\ \A i \in 1 .. 4 :
          IF i % 2 = 1 THEN NonBlank(QBody(lines[i])) ELSE NonBlank(ABody(lines[i]))
    /\ HasForm(lines[1], PrefixQ) /\ QBody(lines[1]) # Strip(QBody(lines[1]))
    /\ HasForm(lines[3], PrefixQuestion) /\ HasForm(lines[4], PrefixAnswer)
    /\ Len(flashcards) = 2

\* C3: every card _parse_flashcards holds or returns has a question and an
\* answer that are non-empty and carry no leading or trailing whitespace, and
\* so has every card generate_flashcards holds or returns.
WellFormedCard(c) ==
    /\ c.question # <<>> /\ Strip(c.question) = c.question
    /\ c.answer # <<>> /\ Strip(c.answer) = c.answer

C3_CardsNonEmpty ==
    /\ \A i \in 1 .. Len(flashcards) : WellFormedCard(flashcards[i])
    /\ \A i \in 1 .. Len(gen_flashcards) : WellFormedCard(gen_flashcards[i])

C3_Witness ==
    /\ Parsed
    /\ Len(flashcards) = 1
    /\ \E i \in 1 .. Len(lines) - 1 :
          /\ Strip(lines[i]) = PrefixQ
          /\ IsAnswerLine(Strip(lines[i + 1]))
          /\ NonBlank(AnswerText(Strip(lines[i + 1])))

\* C4: a question that gets no answer before the next question line or the
\* end of the input produces no card and leaves the other cards unchanged:
\* the result is that of the input without the question and its continuation
\* lines.
NextQuestionAfter(ls, k) ==
    LET later == {m \in (k + 1) .. Len(ls) : IsQuestionLine(Strip(ls[m]))}
    IN  IF later = {} THEN Len(ls) + 1 ELSE SetMin(later)

Unanswered(ls, k) ==
    /\ IsQuestionLine(Strip(ls[k]))
    /\ \A m \in k .. (NextQuestionAfter(ls, k) - 1) : ~IsAnswerLine(Strip(ls[m]))

WithoutQuestion(ls, k) ==
    SubSeq(ls, 1, k - 1) \o SubSeq(ls, NextQuestionAfter(ls, k), Len(ls))

C4_UnansweredDropped ==
    Parsed =>
        \A k \in 1 .. Len(lines) :
            Unanswered(lines, k) =>
                flashcards = ParseOfLines(WithoutQuestion(lines, k))

C4_Witness ==
    /\ Parsed
    /\ Len(flashcards) = 2
    /\ \E k \in 3 .. Len(lines) :
          /\ Unanswered(lines, k)
          /\ NonBlank(QuestionText(Strip(lines[k])))
          /\ NextQuestionAfter(lines, k) = k + 2
          /\ Len(ParseOfLines(SubSeq(lines, 1, k - 1))) = 1

\* C5: writing each returned card as the lines 'Q: <question>' and
\* 'A: <answer>' and parsing that text returns the same cards.
RECURSIVE CardLines(_)
CardLines(cards) ==
    IF cards = <<>> THEN <<>>
    ELSE << PrefixQ \o <<" ">> \o Head(cards).question,
            PrefixA \o <<" ">> \o Head(cards).answer >> \o CardLines(Tail(cards))

Serialize(cards) == JoinLines(CardLines(cards))

C5_ReparseIsIdentity ==
    Parsed => ParseFlashcards(Serialize(flashcards)) = flashcards

C5_Witness ==
    /\ Parsed
    /\ Len(flashcards) = 2
    /\ Serialize(flashcards) # response
    /\ \E i \in 1 .. 2 : \E j \in 1 .. Len(flashcards[i].answer) :
          flashcards[i].answer[j] = " "

----------------------------------------------------------------------------
(* Properties of generate_flashcards *)

Generated == pc_gen = "done"

RequestsInOrder ==
    /\ Len(requests) <= 3
    /\ Len(requests) <= Len(content_chunks)
    /\ \A k \in 1 .. Len(requests) : requests[k].chunk = content_chunks[k]

ReturnsFirstCollected ==
    /\ Len(gen_flashcards) <= num_cards
    /\ gen_flashcards = SubSeq(collected, 1, Min2(num_cards, Len(collected)))

\* C10: for num_cards >= 0 generate_flashcards returns the first num_cards
\* cards collected in chunk order (all of them when fewer were collected),
\* requests only the first 3 chunks, in order, and requests no chunk once the
\* collected count is >= num_cards.
C10_LimitAndStop ==
    (Generated /\ num_cards >= 0) =>
        /\ ReturnsFirstCollected
        /\ RequestsInOrder
        /\ \A k \in 1 .. Len(requests) : requests[k].before < num_cards

\* C10 (amended): the same, except that the first chunk is requested
\* whatever num_cards is (also for num_cards = 0); the count is compared
\* with num_cards only after a chunk's cards were added, so no chunk after
\* the first is requested once the collected count is >= num_cards.
C10_LimitAndStopAfterFirst ==
    (Generated /\ num_cards >= 0) =>
        /\ ReturnsFirstCollected
        /\ RequestsInOrder
        /\ \A k \in 2 .. Len(requests) : requests[k].before < num_cards
        /\ (content_chunks # <<>>) => Len(requests) >= 1
        /\ (Len(requests) < Min2(3, Len(content_chunks)))
              => Len(collected) >= num_cards

C10_Witness ==
    /\ Generated /\ num_cards = 2
    /\ Len(content_chunks) = 4
    /\ Len(requests) = 2
    /\ requests[2].before = 1
    /\ Len(collected) = 3
    /\ Len(gen_flashcards) = 2
----------------------------------------------------------------------------
(* Continuation lines in _parse_flashcards *)

\* the loop is about to consume a line that has neither prefix
AtPlainLine ==
    /\ pc_parse = "loop"
    /\ line_no < Len(lines)
    /\ ~IsQuestionLine(Strip(lines[line_no + 1]))
    /\ ~IsAnswerLine(Strip(lines[line_no + 1]))

NextLine == Strip(lines[line_no + 1])

\* C19: once an A:/Answer: line was read for the current question, a line
\* with neither prefix is appended, space-joined, to the answer and leaves
\* the question unchanged, also when the A:/Answer: line carried no text.
C19_AnswerContinued ==
    [][(AtPlainLine /\ Truthy(current_question) /\ current_answer # None) =>
          /\ current_answer' = current_answer \o <<" ">> \o NextLine
          /\ current_question' = current_question]_vars

\* C20: a line with neither prefix that follows a Q:/Question: line before
\* any A:/Answer: line is appended, space-joined, to the question, also when
\* the Q:/Question: line carried no text.
C20_QuestionContinued ==
    [][(AtPlainLine /\ current_question # None /\ current_answer = None) =>
          /\ current_question' = current_question \o <<" ">> \o NextLine
          /\ current_answer' = current_answer]_vars

----------------------------------------------------------------------------
(* Failures inside process_wikipedia_to_flashcards *)

\* the step is a chunk iteration whose model call raised
ChunkRaised ==
    /\ Len(requests') = Len(requests) + 1
    /\ requests'[Len(requests')].raised

SomeChunkRaised == \E k \in 1 .. Len(requests) : requests[k].raised

\* a chunk iteration whose model call raised adds no card, keeps the cards
\* gathered so far and does not end generate_flashcards with an exception
RaisedChunkContained ==
    ChunkRaised => gen_flashcards' = gen_flashcards /\ pc_gen' # "raised"

\* after a chunk iteration whose model call raised, the loop goes on to the
\* next of the first three chunks when there is one
RaisedChunkLoopGoesOn ==
    (ChunkRaised /\ chunk_index' < Len(TakeFirst(content_chunks, ChunkLimit)))
        => pc_gen' = "loop"

RaisedChunkResult ==
    (pc_sys = "returned" /\ SomeChunkRaised) => result # NoResult

\* C11 (as stated): when the model call for a chunk raises, generate_flashcards
\* does not raise, the chunk adds no card, the earlier cards are kept, the
\* remaining chunks up to the third are still processed, and
\* process_wikipedia_to_flashcards returns a result that is not None.
C11_ChunkFailureTolerated ==
    /\ [][RaisedChunkContained /\ RaisedChunkLoopGoesOn]_vars
    /\ []RaisedChunkResult

\* C11 (amended): the same, the remaining chunks being processed when
\* num_cards >= 1; for num_cards <= 0 the loop ends after the first chunk,
\* raised or not.
C11_ChunkFailureToleratedPositive ==
    /\ [][RaisedChunkContained
            /\ (num_cards >= 1 => RaisedChunkLoopGoesOn)
            /\ (num_cards <= 0 /\ ChunkRaised => pc_gen' = "limit")]_vars
    /\ []RaisedChunkResult

\* the second of three model calls raised after the first had yielded cards,
\* and the pipeline returned a result holding those cards
C11_Witness ==
    /\ pc_sys = "returned"
    /\ Len(requests) = 3
    /\ requests[2].raised
    /\ requests[2].before > 0
    /\ ~requests[3].raised
    /\ result # NoResult
    /\ Len(result.content_cards) > requests[2].before

\* the fetch fails: no title, the API call raises or its body is no JSON, or
\* the scraping fallback does not yield a page
FetchFails(url, api, scrape) ==
    \/ ~Truthy(ExtractTitle(url))
    \/ api \in {"raises", "bad_json"}
    \/ api = "other_status" /\ scrape # "ok"

NoGenerationCall ==
    requests = <<>> /\ summary_requests = 0 /\ pc_gen = "idle"

\* C12: when the fetch fails (no title, API error, failed scraping fallback),
\* process_wikipedia_article returns None, process_wikipedia_to_flashcards
\* returns None, and no content or summary generation call is made.
C12_FetchFailureReturnsNone ==
    /\ \A api \in ApiOutcomes, scrape \in ScrapeOutcomes,
          proc \in ProcessOutcomes :
          FetchFails(wikipedia_url, api, scrape) =>
              ProcessWikipediaArticle(wikipedia_url, api, scrape, proc)
                  = NoContent
    /\ "fetch" \in failures =>
          /\ pc_sys = "returned"
          /\ result = NoResult
          /\ content = NoContent
          /\ NoGenerationCall
    /\ (~Truthy(ExtractTitle(wikipedia_url))
            /\ pc_sys \in {"generate", "summary", "returned"}) =>
          "fetch" \in failures

\* an initialized system returned None for the URL .../wiki/ (empty title)
C12_Witness ==
    /\ pc_sys = "returned"
    /\ is_initialized
    /\ ExtractTitle(wikipedia_url) = <<>>
    /\ "fetch" \in failures
    /\ result = NoResult

\* C13: no failure of a stage (model load, fetch, HTML parse, generation)
\* leaves process_wikipedia_to_flashcards as an exception: the call always
\* ends with a return value.
C13_NothingPropagates == pc_sys # "raised"

----------------------------------------------------------------------------
(* The model is loaded once *)

LoadState == <<is_loaded, tokenizer, model, loads>>

\* C14: over any sequence of initialize, load_model, generate_flashcards and
\* generate_summary_flashcards calls the model is loaded lazily (not by the
\* constructors, but before the first model call) and at most once: after a
\* successful load no call loads again, is_loaded holds only with model and
\* tokenizer set, and is_initialized implies is_loaded.
C14_LoadedOnce ==
    /\ [](/\ loads <= 1
          /\ calls = 0 => ~is_loaded /\ loads = 0
          /\ is_loaded => tokenizer = "loaded" /\ model = "loaded" /\ loads = 1
          /\ is_initialized => is_loaded
          /\ (pc_gen \in {"loop", "limit", "done"} \/ summary_requests > 0)
                => is_loaded)
    /\ [][is_loaded => UNCHANGED LoadState]_vars

\* at least three calls were made, the model was loaded once, and both
\* generation methods made a model call with it
C14_Witness ==
    /\ calls >= 3
    /\ loads = 1
    /\ is_loaded
    /\ pc_gen = "done"
    /\ Len(requests) >= 1
    /\ summary_requests >= 1

----------------------------------------------------------------------------
(* Properties of clean_text *)

Cleaned == pc_clean = "done"

Suffixes(s) == {SubSeq(s, k, Len(s)) : k \in 1 .. Len(s)}

\* no whitespace run of two or more, no [digits], no [edit], no whitespace
\* at either end
NormalForm(s) ==
    /\ \A k \in 1 .. Len(s) - 1 :
          ~(s[k] \in Whitespace /\ s[k + 1] \in Whitespace)
    /\ \A t \in Suffixes(s) : CitationMatch(t) = 0 /\ ~StartsWith(t, EditMarker)
    /\ s # <<>> => s[1] \notin Whitespace /\ s[Len(s)] \notin Whitespace

\* C16: the output of clean_text is in normal form: no run of two or more
\* whitespace characters, no citation marker [digits], no [edit] marker, no
\* leading or trailing whitespace.
C16_OutputNormalForm == Cleaned => NormalForm(cleaned)

\* C17: the output of clean_text contains no curly quote, each one of the
\* input having been replaced by the straight quote of its kind.
C17_CurlyQuotesNormalized ==
    Cleaned => \A k \in 1 .. Len(cleaned) : cleaned[k] \notin CurlyQuotes

----------------------------------------------------------------------------
(* Properties of extract_key_concepts *)

ConceptsReturned == pc_concepts = "done"

Distinct(seq) ==
    \A i, j \in 1 .. Len(seq) : i # j => seq[i] # seq[j]

\* C15: extract_key_concepts returns at most 20 entries, all distinct, each
\* of at least 4 characters, starting with an uppercase character, made of
\* alphabetic characters only, and none of The, This, That, There, These,
\* Those.
C15_KeyConcepts ==
    ConceptsReturned =>
        /\ Len(key_concepts) <= 20
        /\ Distinct(key_concepts)
        /\ \A k \in 1 .. Len(key_concepts) :
              /\ Len(key_concepts[k]) >= 4
              /\ IsUpper(key_concepts[k][1])
              /\ IsAlpha(key_concepts[k])
              /\ key_concepts[k] \notin Stoplist

\* a text with more than 20 distinct concepts, one of them repeated, was
\* cut down to 20 entries
C15_Witness ==
    /\ ConceptsReturned
    /\ Len(CollectConcepts(sentences)) > Cardinality(Range(CollectConcepts(sentences)))
    /\ Cardinality(Range(CollectConcepts(sentences))) > 20
    /\ Len(key_concepts) = 20

----------------------------------------------------------------------------
(* Properties of interactive_mode *)

\* the step reads a line at the prompt named
Reads(prompt) == pc_cli = prompt /\ rounds' = rounds + 1

StrippedInput == Strip(last_input')

QuitTyped == Lower(StrippedInput) \in QuitWords

NotInvoked == pc_cli' = "url" /\ invocations' = invocations

\* C18: interactive_mode calls the pipeline only with a URL containing
\* 'wikipedia.org' and a count within 1..50, the count being 10 when the
\* count line is empty or no integer; an out-of-range count, an empty URL or
\* a URL without 'wikipedia.org' leads back to the URL prompt without a call;
\* quit, exit or q in any letter case at the URL prompt ends the loop.
C18_InteractiveGuards ==
    /\ [](\A k \in 1 .. Len(invocations) :
             /\ Contains(invocations[k].url, WikipediaOrg)
             /\ invocations[k].num_cards \in 1 .. 50)
    /\ [][/\ (Reads("url") /\ QuitTyped) => pc_cli' = "ended"
          /\ (Reads("url") /\ ~QuitTyped
                 /\ (StrippedInput = <<>>
                        \/ ~Contains(StrippedInput, WikipediaOrg)))
                => NotInvoked
          /\ (Reads("count") /\ IsIntLiteral(last_input')
                 /\ IntOf(last_input') \notin 1 .. 50)
                => NotInvoked
          /\ (Reads("count")
                 /\ (last_input' = <<>> \/ ~IsIntLiteral(last_input')))
                => pc_cli' = "process" /\ cli_num_cards' = 10
          /\ (Reads("count") /\ IsIntLiteral(last_input')
                 /\ IntOf(last_input') \in 1 .. 50)
                => pc_cli' = "process" /\ cli_num_cards' = IntOf(last_input')
          /\ invocations' # invocations =>
                /\ pc_cli = "process"
                /\ invocations' = Append(invocations,
                       [url |-> typed_url, num_cards |-> cli_num_cards])]_vars

\* the pipeline was called with the count 50, then with the count 10 after a
\* count line that is no integer
C18_Witness ==
    /\ Len(invocations) = 2
    /\ invocations[1].num_cards = 50
    /\ invocations[2].num_cards = 10
    /\ ~IsIntLiteral(last_input)
    /\ last_input # <<>>

----------------------------------------------------------------------------
(* Sentence snapping in chunk_text *)

\* the periods in the last 100 characters before the raw end of the window w
\* that lie behind its start
SnapPeriods(w) ==
    {p \in text.dots : w.raw - 100 <= p /\ p < w.raw /\ p > w.start}

\* w ends one past the last such period, or at its raw end without one; a
\* window whose raw end is not before the end of the text is not snapped
SnappedAsStated(w) ==
    IF w.raw < text.len /\ SnapPeriods(w) # {}
    THEN w.end = SetMax(SnapPeriods(w)) + 1
    ELSE w.end = w.raw

\* C21 (as stated): every window whose raw end lies before the end of the
\* text ends one past the last period found in the last 100 characters before
\* the raw end at an index greater than start, or at the raw end when there
\* is none; a window whose raw end reaches the end of the text is not snapped.
C21_SnapToLastPeriod ==
    \A i \in 1 .. Len(windows) : SnappedAsStated(windows[i])

\* C21 (amended): the same for calls with 0 <= overlap < max_chunk_size; with
\* a larger overlap the window start falls below -1 or the raw end below 0, and
\* the window's end is moved forward to 0 or to a period outside the last 100
\* characters.
C21_SnapToLastPeriodGuarded ==
    Guarded =>
        \A i \in 1 .. Len(windows) : SnappedAsStated(windows[i])

\* a returned call with a window snapped to the last of several periods of
\* its lookback range, and a last window that reached the end of the text
C21_Witness ==
    /\ Returned /\ LongText /\ Guarded
    /\ \E i \in 1 .. Len(windows) :
          /\ Cardinality(SnapPeriods(windows[i])) >= 2
          /\ windows[i].end = SetMax(SnapPeriods(windows[i])) + 1
          /\ windows[i].end < windows[i].raw
    /\ \E i \in 1 .. Len(windows) :
          /\ windows[i].raw >= text.len
          /\ windows[i].end = windows[i].raw
          /\ \E p \in text.dots : InWindow(p, windows[i]) /\ p > windows[i].start

----------------------------------------------------------------------------
(* Cards parsed from the prompt *)

\* the question of the prompts' template line "Q: [Question]"
TemplateQuestion == <<"[", "Q", "u", "e", "s", "t", "i", "o", "n", "]">>

NoTemplateCard(cards) ==
    \A k \in 1 .. Len(cards) : cards[k].question # TemplateQuestion

\* C22: when the decoded response begins with the prompt that was sent, no
\* card returned by generate_flashcards or generate_summary_flashcards is
\* parsed from the template lines "Q: [Question]" / "A: [Answer]" of the
\* prompt.
C22_NoCardFromPrompt ==
    /\ Generated => NoTemplateCard(gen_flashcards)
    /\ summary_requests > 0 => NoTemplateCard(summary_flashcards)

----------------------------------------------------------------------------
(* The metadata of the result *)

\* C23: in every result process_wikipedia_to_flashcards returns,
\* chunks_processed is the number of chunks for which generate_flashcards
\* made a generation call during the run.
C23_ChunksProcessedCounted ==
    (pc_sys = "returned" /\ result # NoResult) =>
        result.chunks_processed = Len(requests)

----------------------------------------------------------------------------
(* Empty windows of chunk_text *)

\* the positions of text[w.start:w.end] that hold no whitespace
WindowInk(w) ==
    {p \in (0 .. text.len - 1) \ text.ws :
        InRange(p, Slice(text, w.start, w.end))}

InkWindows == {i \in 1 .. Len(windows) : WindowInk(windows[i]) # {}}

\* C24: for a text longer than max_chunk_size every chunk is non-empty and
\* neither begins nor ends with whitespace; a window whose trimmed content is
\* empty adds no chunk, so that there are as many chunks as windows with
\* non-empty trimmed content.
C24_ChunksTrimmedNonEmpty ==
    (LongText /\ pc_chunk \in {"loop", "done"}) =>
        /\ \A k \in 1 .. Len(chunks) :
              /\ RangeLen(chunks[k]) > 0
              /\ chunks[k].lo \notin text.ws
              /\ (chunks[k].hi - 1) \notin text.ws
        /\ Len(chunks) = Cardinality(InkWindows)
        /\ \A i \in 1 .. Len(windows) :
              WindowInk(windows[i]) = {} => RangeLen(windows[i].chunk) = 0

\* a returned call with a window of whitespace only, which added no chunk,
\* and a chunk that lost whitespace at both ends of its window
C24_Witness ==
    /\ Returned /\ LongText
    /\ \E i \in 1 .. Len(windows) :
          windows[i].end > windows[i].start /\ WindowInk(windows[i]) = {}
    /\ Len(chunks) >= 1
    /\ Len(chunks) < Len(windows)
    /\ \E i \in InkWindows :
          /\ windows[i].start \in text.ws
          /\ (windows[i].end - 1) \in text.ws

----------------------------------------------------------------------------
(* Windows after the one that reaches the end of the text *)

\* the windows whose raw end is at or past the end of the text
Reached == {i \in 1 .. Len(windows) : windows[i].raw >= text.len}

Inside(r, q) == \A p \in 0 .. text.len - 1 : InRange(p, r) => InRange(p, q)

\* C25: with 0 < overlap < max_chunk_size the loop goes on after the first
\* window that reaches the end of the text exactly when that window's raw end
\* minus overlap is below len(text); every later window lies inside that
\* window, so does its chunk; with the defaults (1000, 200) there is at most
\* one such later window.
C25_WindowsPastTheEnd ==
    (0 < overlap /\ overlap < max_chunk_size /\ LongText /\ Reached # {}) =>
        LET f == SetMin(Reached)
            first == windows[f]
        IN  /\ Len(windows) > f => first.raw - overlap < text.len
            /\ Len(windows) = f =>
                  (Returned <=> first.raw - overlap >= text.len)
            /\ \A j \in f + 1 .. Len(windows) :
                  /\ windows[j].start > first.start
                  /\ windows[j].start < text.len
                  /\ Inside(Slice(text, windows[j].start, windows[j].end),
                            Slice(text, first.start, first.end))
                  /\ Inside(windows[j].chunk, first.chunk)
            /\ Defaults => Len(windows) <= f + 1
            /\ Defaults => Len(chunks) <= f + 1

\* a returned call with the defaults in which the window after the first one
\* that reached the end added a chunk
C25_Witness ==
    /\ Returned /\ Defaults /\ LongText /\ Reached # {}
    /\ Len(windows) = SetMin(Reached) + 1
    /\ RangeLen(windows[Len(windows)].chunk) > 0
    /\ Len(chunks) = Len(windows)
====
